---- MODULE Spec2Model ----
(***************************************************************************)
(* HaruChat server (haruServer/main.py): the chat gateway (chat,           *)
(* chat_stream) and the two streaming relays (stream_gemini,               *)
(* stream_openai) as a state machine over one request.                     *)
(*                                                                         *)
(* One behaviour is one request: Init picks the request and the configured *)
(* API keys, the upstream provider is the environment and answers          *)
(* nondeterministically (connect failure, status, body, lines, end of      *)
(* stream, transport failure), the consumer may abandon the generator.     *)
(*                                                                         *)
(* ConcSpec runs several streaming relays interleaved at their awaits and  *)
(* yields; BodySpec runs the loop that builds the upstream request body    *)
(* from request.messages.                                                  *)
(***************************************************************************)
EXTENDS Integers, Sequences, FiniteSets, TLC

VARIABLES
    provider,      \* request.provider, a sequence of characters
    mode,          \* "chat" (POST /api/chat) or "stream" (POST /api/chat/stream)
    geminiKey,     \* Config.GEMINI_API_KEY
    openaiKey,     \* Config.OPENAI_API_KEY
    pc,            \* position of the handler / generator
    adapter,       \* "none" | "gemini" | "openai": the branch taken by the dispatch
    calls,         \* number of upstream HTTP calls issued (client.post / client.stream)
    status,        \* status code of the upstream response, 0 before there is one
    body,          \* body of the upstream response of a non-200 answer / of a single-shot answer
    read,          \* the upstream lines aiter_lines has delivered so far
    pending,       \* events of the current chunk not yet yielded
    pendingRaise,  \* the current chunk raises once `pending` is drained
    events,        \* the frames yielded to the consumer so far
    origin,        \* origin[k]: index in `read` of the line events[k] came from, 0 if none
    clientOpen,    \* the httpx.AsyncClient of get_http_client is open
    respOpen,      \* the upstream streaming response is open
    outcome,       \* "running" | "ended" | "raised" | "abandoned" | "returned" | "http_error"
    result,        \* single-shot: the ChatResponse or the HTTPException
    \* several streaming requests served concurrently
    requests,      \* requests[r]: the adapter request r was dispatched to
    relays,        \* relays[s]: the locals of the relay generator in slot s
    delivered,     \* delivered[r]: the lines the upstream of request r has sent
    received,      \* received[r]: the frames the caller of request r has got
    \* building the upstream request body
    messages,      \* request.messages
    target,        \* "none" | "gemini" | "openai": the adapter building a body
    wire,          \* the `contents` / `messages` list built so far
    posted,        \* the body has been handed to client.post / client.stream
    \* writing a frame to the client
    frameText,     \* the characters put into the frame
    written,       \* the characters of the frame written, <<>> before
    \* the database and the routes over it
    users,         \* users[id]: the row of table users with that id
    sessions,      \* sessions[id]: the row of table chat_sessions
    stored,        \* stored[id]: the row of table chat_messages
    clock,         \* datetime.utcnow() of the last write
    foreignKeys,   \* whether SQLite enforces foreign keys (off unless built or set on)
    response,      \* the answer of the last route call
    issued         \* the tokens create_access_token / create_refresh_token have made

requestVars == <<provider, mode, geminiKey, openaiKey, pc, adapter, calls, status, body,
                 read, pending, pendingRaise, events, origin, clientOpen, respOpen,
                 outcome, result>>
concVars == <<requests, relays, delivered, received>>
bodyVars == <<messages, target, wire, posted>>
frameVars == <<frameText, written>>
dbVars == <<users, sessions, stored, clock, foreignKeys, response, issued>>
vars == <<requestVars, concVars, bodyVars, frameVars, dbVars>>

\* what the actions of one specification leave alone
offRequestVars == <<concVars, bodyVars, frameVars, dbVars>>
offConcVars == <<requestVars, bodyVars, frameVars, dbVars>>
offBodyVars == <<requestVars, concVars, frameVars, dbVars>>
offFrameVars == <<requestVars, concVars, bodyVars, dbVars>>
offDbVars == <<requestVars, concVars, bodyVars, frameVars>>

(***************************************************************************)
(* Bounds                                                                  *)
(***************************************************************************)
MaxLines == 3
NumRequests == 2
ConcMaxLines == 2
MaxMessages == 2
MaxText == 3
MaxClock == 4
MaxRows == 2

(***************************************************************************)
(* JSON values, tagged by their Python type after json.loads               *)
(***************************************************************************)
Num(n) == [t |-> "num", v |-> n]
Str(s) == [t |-> "str", v |-> s]
Bool(b) == [t |-> "bool", v |-> b]
Arr(s) == [t |-> "arr", v |-> s]
Obj(r) == [t |-> "obj", v |-> r]
EmptyObj == [t |-> "obj", v |-> <<>>]
Null == [t |-> "null", v |-> 0]
\* json.loads raises JSONDecodeError on this text
Invalid == [t |-> "invalid", v |-> 0]

\* Python truthiness, as used by `if x:` and `a and b`
Truthy(x) ==
    CASE x.t = "num" -> x.v # 0
      [] x.t = "str" -> x.v # ""
      [] x.t = "bool" -> x.v
      [] x.t = "arr" -> Len(x.v) > 0
      [] x.t = "obj" -> DOMAIN x.v # {}
      [] OTHER -> FALSE

\* `key in x`: defined on dicts and lists, TypeError on numbers and booleans
InRaises(x) == x.t \in {"num", "bool", "null"}
In(key, x) == x.t = "obj" /\ key \in DOMAIN x.v

\* x.get(key, default): AttributeError unless x is a dict
GetRaises(x) == x.t # "obj"
Get(x, key, default) == IF key \in DOMAIN x.v THEN x.v[key] ELSE default

(***************************************************************************)
(* str.lower() on request.provider                                         *)
(***************************************************************************)
ToLower == [G |-> "g", E |-> "e", M |-> "m", I |-> "i", N |-> "n",
            O |-> "o", P |-> "p", A |-> "a"]
LowerChar(c) == IF c \in DOMAIN ToLower THEN ToLower[c] ELSE c
\* Lower left out: the provider is compared as it was sent
LowerOmitted(s) == s
Lower(s) == [i \in DOMAIN s |-> LowerChar(s[i])]

GEMINI == <<"g", "e", "m", "i", "n", "i">>
OPENAI == <<"o", "p", "e", "n", "a", "i">>

Providers ==
    { GEMINI,
      <<"G", "e", "m", "i", "n", "i">>,
      OPENAI,
      <<"O", "p", "e", "n", "A", "I">>,
      <<"g", "e", "m", "i", "n", "i", "2">>,
      <<"o", "p", "e", "n">>,
      <<>> }

Keys == {"", "sk-1"}


(***************************************************************************)
(* Frames yielded to the consumer, as the JSON object each one carries     *)
(***************************************************************************)
ContentEvent(text) == [type |-> "content", data |-> text]
ThinkingEvent(text) == [type |-> "thinking", data |-> text]
UsageEvent(u) == [type |-> "usage", usage |-> u]
DoneEvent == [type |-> "done"]
\* data: {"error": "<msg><arg>"}
ErrorEvent(msg, arg) == [error |-> [msg |-> msg, arg |-> arg]]

IsError(e) == "error" \in DOMAIN e
IsDone(e) == "type" \in DOMAIN e /\ e.type = "done"
IsContent(e) == "type" \in DOMAIN e /\ e.type = "content"
IsThinking(e) == "type" \in DOMAIN e /\ e.type = "thinking"
IsUsage(e) == "type" \in DOMAIN e /\ e.type = "usage"

NoEvents == [evs |-> <<>>, raises |-> FALSE]
Raises == [evs |-> <<>>, raises |-> TRUE]

(***************************************************************************)
(* stream_gemini: the events of one decoded chunk, in yield order, and     *)
(* whether an exception other than JSONDecodeError escapes after them      *)
(***************************************************************************)
\* HasText with the test on the text left out
HasTextAlways(text) == TRUE

\* if text:
HasText(text) == Truthy(text)

RECURSIVE GeminiPartEvents(_, _)
GeminiPartEvents(parts, k) ==
    IF k > Len(parts) THEN NoEvents
    ELSE IF GetRaises(parts[k]) THEN Raises
    ELSE LET text == Get(parts[k], "text", Str(""))
             is_thought == Get(parts[k], "thought", Bool(FALSE))
             ev == IF HasText(text)
                   THEN <<IF Truthy(is_thought) THEN ThinkingEvent(text)
                                                ELSE ContentEvent(text)>>
                   ELSE <<>>
             rest == GeminiPartEvents(parts, k + 1)
         IN [evs |-> ev \o rest.evs, raises |-> rest.raises]

\* candidates[0] / choices[0]: the subscript needs a list
FirstRaises(list) == list.t # "arr"
First(list) == list.v[1]

GeminiCandidateEvents(chunk) ==
    IF InRaises(chunk) THEN Raises
    ELSE IF ~(In("candidates", chunk) /\ Truthy(chunk.v.candidates)) THEN NoEvents
    ELSE IF FirstRaises(chunk.v.candidates) THEN Raises
    ELSE LET candidate == First(chunk.v.candidates) IN
         IF InRaises(candidate) THEN Raises
         ELSE IF ~In("content", candidate) THEN NoEvents
         ELSE IF InRaises(candidate.v.content) THEN Raises
         ELSE IF ~In("parts", candidate.v.content) THEN NoEvents
         ELSE LET parts == candidate.v.content.v.parts IN
              IF parts.t = "arr" THEN GeminiPartEvents(parts.v, 1)
              ELSE IF parts.t \in {"obj", "str"} /\ ~Truthy(parts) THEN NoEvents
              ELSE Raises

\* GeminiUsage adding the total up itself
GeminiUsageComputedTotal(um) ==
    [prompt_tokens |-> Get(um, "promptTokenCount", Num(0)),
     completion_tokens |-> Get(um, "candidatesTokenCount", Num(0)),
     total_tokens |-> Num(Get(um, "promptTokenCount", Num(0)).v
                          + Get(um, "candidatesTokenCount", Num(0)).v)]

GeminiUsage(um) ==
    [prompt_tokens |-> Get(um, "promptTokenCount", Num(0)),
     completion_tokens |-> Get(um, "candidatesTokenCount", Num(0)),
     total_tokens |-> Get(um, "totalTokenCount", Num(0))]

GeminiUsageEvents(chunk) ==
    IF ~In("usageMetadata", chunk) THEN NoEvents
    ELSE IF GetRaises(chunk.v.usageMetadata) THEN Raises
    ELSE [evs |-> <<UsageEvent(GeminiUsage(chunk.v.usageMetadata))>>, raises |-> FALSE]

\* GeminiChunkEvents with the usage frame yielded ahead of the part frames
GeminiChunkEventsUsageFirst(chunk) ==
    LET c == GeminiCandidateEvents(chunk) IN
    IF c.raises THEN c
    ELSE LET u == GeminiUsageEvents(chunk) IN
         [evs |-> u.evs \o c.evs, raises |-> u.raises]

GeminiChunkEvents(chunk) ==
    LET c == GeminiCandidateEvents(chunk) IN
    IF c.raises THEN c
    ELSE LET u == GeminiUsageEvents(chunk) IN
         [evs |-> c.evs \o u.evs, raises |-> u.raises]

(***************************************************************************)
(* stream_openai: the events of one decoded chunk                          *)
(***************************************************************************)
OpenAIChunkEvents(chunk) ==
    IF InRaises(chunk) THEN Raises
    ELSE IF ~(In("choices", chunk) /\ Truthy(chunk.v.choices)) THEN NoEvents
    ELSE IF FirstRaises(chunk.v.choices) THEN Raises
    ELSE IF GetRaises(First(chunk.v.choices)) THEN Raises
    ELSE LET delta == Get(First(chunk.v.choices), "delta", EmptyObj) IN
         IF GetRaises(delta) THEN Raises
         ELSE LET text == Get(delta, "content", Str("")) IN
              IF HasText(text) THEN [evs |-> <<ContentEvent(text)>>, raises |-> FALSE]
              ELSE NoEvents


(***************************************************************************)
(* call_gemini / call_openai: the ChatResponse parsed from a 200 answer.   *)
(* A str is kept as the sequence of its non-empty pieces.                  *)
(***************************************************************************)
Concat(acc, text) == IF text.v = "" THEN acc ELSE Append(acc, text.v)

\* IsThought with the flag never looked at
IsThoughtNever(part) == FALSE

\* if part.get("thought"):
IsThought(part) == Truthy(Get(part, "thought", Null))

RECURSIVE GeminiSingleParts(_, _, _)
GeminiSingleParts(parts, k, acc) ==
    IF k > Len(parts) THEN acc
    ELSE IF GetRaises(parts[k]) THEN [acc EXCEPT !.raises = TRUE]
    ELSE LET text == Get(parts[k], "text", Str("")) IN
         IF text.t # "str" THEN [acc EXCEPT !.raises = TRUE]
         ELSE IF IsThought(parts[k])
              THEN GeminiSingleParts(parts, k + 1,
                       [acc EXCEPT !.has_thinking = TRUE,
                                   !.thinking_content = Concat(@, text)])
              ELSE GeminiSingleParts(parts, k + 1,
                       [acc EXCEPT !.content = Concat(@, text)])

EmptyParse == [content |-> <<>>, has_thinking |-> FALSE, thinking_content |-> <<>>,
               raises |-> FALSE]

GeminiSingleContent(data) ==
    IF InRaises(data) THEN [EmptyParse EXCEPT !.raises = TRUE]
    ELSE IF ~(In("candidates", data) /\ Truthy(data.v.candidates)) THEN EmptyParse
    ELSE IF FirstRaises(data.v.candidates) THEN [EmptyParse EXCEPT !.raises = TRUE]
    ELSE LET candidate == First(data.v.candidates) IN
         IF InRaises(candidate) THEN [EmptyParse EXCEPT !.raises = TRUE]
         ELSE IF ~In("content", candidate) THEN EmptyParse
         ELSE IF InRaises(candidate.v.content) THEN [EmptyParse EXCEPT !.raises = TRUE]
         ELSE IF ~In("parts", candidate.v.content) THEN EmptyParse
         ELSE LET parts == candidate.v.content.v.parts IN
              IF parts.t = "arr" THEN GeminiSingleParts(parts.v, 1, EmptyParse)
              ELSE IF parts.t \in {"obj", "str"} /\ ~Truthy(parts) THEN EmptyParse
              ELSE [EmptyParse EXCEPT !.raises = TRUE]

NoUsage == [present |-> FALSE, prompt_tokens |-> Num(0), completion_tokens |-> Num(0),
            total_tokens |-> Num(0)]
SomeUsage(u) == [present |-> TRUE, prompt_tokens |-> u.prompt_tokens,
                 completion_tokens |-> u.completion_tokens,
                 total_tokens |-> u.total_tokens]

OpenAIUsage(u) ==
    [prompt_tokens |-> Get(u, "prompt_tokens", Num(0)),
     completion_tokens |-> Get(u, "completion_tokens", Num(0)),
     total_tokens |-> Get(u, "total_tokens", Num(0))]

ChatResponse(content, has_thinking, thinking_content, usage) ==
    [kind |-> "ChatResponse", content |-> content, has_thinking |-> has_thinking,
     thinking_content |-> thinking_content, usage |-> usage]
HTTPException(status_code, msg, arg) ==
    [kind |-> "HTTPException", status_code |-> status_code,
     detail |-> [msg |-> msg, arg |-> arg]]
Exception(exc) == [kind |-> "Exception", exc |-> exc]
NoResult == [kind |-> "none"]

\* call_gemini after the status check
GeminiSingle(data) ==
    IF data.t = "invalid" THEN Exception("JSONDecodeError")
    ELSE LET c == GeminiSingleContent(data) IN
         IF c.raises THEN Exception("TypeError")
         ELSE IF ~In("usageMetadata", data)
              THEN ChatResponse(c.content, c.has_thinking, c.thinking_content, NoUsage)
         ELSE IF GetRaises(data.v.usageMetadata) THEN Exception("TypeError")
         ELSE ChatResponse(c.content, c.has_thinking, c.thinking_content,
                           SomeUsage(GeminiUsage(data.v.usageMetadata)))

\* call_openai after the status check
OpenAISingle(data) ==
    IF data.t = "invalid" THEN Exception("JSONDecodeError")
    ELSE IF InRaises(data) THEN Exception("TypeError")
    ELSE LET hasChoice == In("choices", data) /\ Truthy(data.v.choices) IN
         IF hasChoice /\ FirstRaises(data.v.choices) THEN Exception("TypeError")
         ELSE IF hasChoice /\ GetRaises(First(data.v.choices)) THEN Exception("TypeError")
         ELSE LET message == IF hasChoice
                             THEN Get(First(data.v.choices), "message", EmptyObj)
                             ELSE EmptyObj
              IN
              IF GetRaises(message) THEN Exception("TypeError")
              ELSE LET content == IF hasChoice THEN Get(message, "content", Str(""))
                                  ELSE Str("")
                   IN
                   IF ~In("usage", data)
                   THEN IF content.t # "str" THEN Exception("ValidationError")
                        ELSE ChatResponse(Concat(<<>>, content), FALSE, <<>>, NoUsage)
                   ELSE IF GetRaises(data.v.usage) THEN Exception("TypeError")
                   ELSE IF content.t # "str" THEN Exception("ValidationError")
                   ELSE ChatResponse(Concat(<<>>, content), FALSE, <<>>,
                                     SomeUsage(OpenAIUsage(data.v.usage)))

(***************************************************************************)
(* The upstream provider: what it may answer                               *)
(***************************************************************************)
Statuses == {200, 500}
Bodies == {"server error", "{\"error\": \"quota\"}"}

Part(text) == Obj([text |-> Str(text)])
Thought(text) == Obj([text |-> Str(text), thought |-> Bool(TRUE)])
Candidates(parts) == Arr(<<Obj([content |-> Obj([parts |-> Arr(parts)])])>>)
Delta(d) == Arr(<<Obj([delta |-> Obj(d)])>>)

\* {"candidates":[{"content":{"parts":[{"text":"Hi"}]}}]}
GeminiHi == Obj([candidates |-> Candidates(<<Part("Hi")>>)])
\* two parts, the first a thought, and usageMetadata
GeminiTwo ==
    Obj([candidates |-> Candidates(<<Thought("A"), Part("B")>>),
         usageMetadata |-> Obj([promptTokenCount |-> Num(1),
                                candidatesTokenCount |-> Num(2),
                                totalTokenCount |-> Num(3)])])
\* {"usageMetadata":{"promptTokenCount":1,"totalTokenCount":5}}
GeminiUsageOnly ==
    Obj([usageMetadata |-> Obj([promptTokenCount |-> Num(1), totalTokenCount |-> Num(5)])])
\* parts with empty or no text: a thought, an answer part, a bare thought flag
GeminiEmptyPart ==
    Obj([candidates |-> Candidates(<<Thought(""), Part(""), Obj([thought |-> Bool(TRUE)])>>)])
\* thoughts and answer parts alternating
GeminiInterleaved ==
    Obj([candidates |-> Candidates(<<Part("B"), Thought("A"), Part("C"), Thought("D")>>)])
\* {"candidates":[5]}
GeminiBadCandidate == Obj([candidates |-> Arr(<<Num(5)>>)])
\* {"candidates":[{"content":{"parts":[{"text":"A"},5]}}]}
GeminiBadPart == Obj([candidates |-> Candidates(<<Part("A"), Num(5)>>)])

\* {"choices":[{"delta":{"content":"Hi"}}]}
OpenAIHi == Obj([choices |-> Delta([content |-> Str("Hi")])])
\* {"choices":[{"delta":{"role":"assistant"}}]}
OpenAIRole == Obj([choices |-> Delta([role |-> Str("assistant")])])
\* {"choices":[{"delta":{"content":""}}]}
OpenAIEmpty == Obj([choices |-> Delta([content |-> Str("")])])
\* {"choices":[],"usage":{...}}
OpenAIUsageOnly ==
    Obj([choices |-> Arr(<<>>),
         usage |-> Obj([prompt_tokens |-> Num(1), completion_tokens |-> Num(2),
                        total_tokens |-> Num(3)])])
\* {"choices":[5]}
OpenAIBadChoice == Obj([choices |-> Arr(<<Num(5)>>)])
\* {"choices":[{"message":{"content":"Hi"}}],"usage":{"total_tokens":3}}
OpenAIMessage ==
    Obj([choices |-> Arr(<<Obj([message |-> Obj([content |-> Str("Hi")])])>>),
         usage |-> Obj([total_tokens |-> Num(3)])])

\* an upstream line is prefix \o raw; json is what json.loads makes of raw
Line(prefix, raw, json) == [prefix |-> prefix, raw |-> raw, json |-> json]
Data(raw, json) == Line("data: ", raw, json)

DoneLine == Data("[DONE]", Invalid)
BadLine == Data("{not json", Invalid)
NumberLine == Data("5", Num(5))
BlankLine == Line("", "", Invalid)
\* `data:` with no space before a chunk either adapter would relay
NoSpaceLine ==
    Line("data:",
         "{\"candidates\":[{\"content\":{\"parts\":[{\"text\":\"Hi\"}]}}],\"choices\":[{\"delta\":{\"content\":\"Hi\"}}]}",
         Obj([candidates |-> Candidates(<<Part("Hi")>>),
              choices |-> Delta([content |-> Str("Hi")])]))

\* HasDataPrefix not asking for the space
HasDataPrefixNoSpace(line) == line.prefix \in {"data: ", "data:"}

\* line.startswith("data: ")
HasDataPrefix(line) == line.prefix = "data: "

CommonLines == {DoneLine, BadLine, NumberLine, BlankLine, NoSpaceLine}

GeminiHiLine == Data("{\"candidates\":[{\"content\":{\"parts\":[{\"text\":\"Hi\"}]}}]}", GeminiHi)
GeminiTwoLine ==
    Data("{\"candidates\":[{\"content\":{\"parts\":[{\"text\":\"A\",\"thought\":true},{\"text\":\"B\"}]}}],\"usageMetadata\":{\"promptTokenCount\":1,\"candidatesTokenCount\":2,\"totalTokenCount\":3}}",
         GeminiTwo)
GeminiUsageOnlyLine ==
    Data("{\"usageMetadata\":{\"promptTokenCount\":1,\"totalTokenCount\":5}}", GeminiUsageOnly)
GeminiEmptyPartLine ==
    Data("{\"candidates\":[{\"content\":{\"parts\":[{\"text\":\"\",\"thought\":true},{\"text\":\"\"},{\"thought\":true}]}}]}",
         GeminiEmptyPart)
GeminiBadCandidateLine == Data("{\"candidates\":[5]}", GeminiBadCandidate)
GeminiBadPartLine ==
    Data("{\"candidates\":[{\"content\":{\"parts\":[{\"text\":\"A\"},5]}}]}", GeminiBadPart)

OpenAIHiLine == Data("{\"choices\":[{\"delta\":{\"content\":\"Hi\"}}]}", OpenAIHi)
OpenAIRoleLine == Data("{\"choices\":[{\"delta\":{\"role\":\"assistant\"}}]}", OpenAIRole)
OpenAIEmptyLine == Data("{\"choices\":[{\"delta\":{\"content\":\"\"}}]}", OpenAIEmpty)
OpenAIUsageOnlyLine ==
    Data("{\"choices\":[],\"usage\":{\"prompt_tokens\":1,\"completion_tokens\":2,\"total_tokens\":3}}",
         OpenAIUsageOnly)
OpenAIBadChoiceLine == Data("{\"choices\":[5]}", OpenAIBadChoice)

GeminiLines ==
    CommonLines \cup
    { GeminiHiLine, GeminiTwoLine, GeminiUsageOnlyLine, GeminiEmptyPartLine,
      GeminiBadCandidateLine, GeminiBadPartLine }

OpenAILines ==
    CommonLines \cup
    { OpenAIHiLine, OpenAIRoleLine, OpenAIEmptyLine, OpenAIUsageOnlyLine,
      OpenAIBadChoiceLine }

LinesOf(a) == IF a = "gemini" THEN GeminiLines ELSE OpenAILines

\* bodies of a 200 answer to a single-shot call
SingleBodies(a) ==
    IF a = "gemini"
    THEN {GeminiHi, GeminiTwo, GeminiUsageOnly, GeminiEmptyPart, GeminiInterleaved,
          GeminiBadPart, EmptyObj, Invalid}
    ELSE {OpenAIMessage, OpenAIUsageOnly, OpenAIBadChoice, EmptyObj, Invalid}


(***************************************************************************)
(* Concurrent streaming requests: each call of chat_stream makes its own   *)
(* generate() and relay generator, and get_http_client() its own client    *)
(***************************************************************************)
Requests == 1..NumRequests

\* Slot with one module-level relay state used by every request
SlotShared(r) == 1

\* the generator frame (and client) request r runs in
Slot(r) == r

IdleRelay == [pc |-> "connect", adapter |-> "none", status |-> 0, pending |-> <<>>,
              pendingRaise |-> FALSE, outcome |-> "running"]

NoRelays ==
    /\ requests = [r \in Requests |-> "gemini"]
    /\ relays = [r \in Requests |-> IdleRelay]
    /\ delivered = [r \in Requests |-> <<>>]
    /\ received = [r \in Requests |-> <<>>]

(***************************************************************************)
(* The upstream request body: the loop over request.messages that opens    *)
(* call_gemini, stream_gemini, call_openai and stream_openai               *)
(***************************************************************************)
Roles == {"user", "assistant", "system", "model", "tool"}
Contents == {"hi", "ok"}

\* Message(role: str, content: str)
Message(role, content) == [role |-> role, content |-> content]
Messages == {Message(role, content) : role \in Roles, content \in Contents}

MessageLists == UNION {[1..n -> Messages] : n \in 0..MaxMessages}

\* GeminiWireRole turning only "assistant" into "model"
GeminiWireRoleAssistantOnly(role) == IF role = "assistant" THEN "model" ELSE role

\* role = "user" if msg.role == "user" else "model"
GeminiWireRole(role) == IF role = "user" THEN "user" ELSE "model"

\* {"role": role, "parts": [{"text": msg.content}]}
GeminiEntry(msg) == [role |-> GeminiWireRole(msg.role), parts |-> <<[text |-> msg.content]>>]

\* msg.role if msg.role != "model" else "assistant"
OpenAIWireRole(role) == IF role # "model" THEN role ELSE "assistant"

\* {"role": ..., "content": msg.content}
OpenAIEntry(msg) == [role |-> OpenAIWireRole(msg.role), content |-> msg.content]

Entry(a, msg) == IF a = "gemini" THEN GeminiEntry(msg) ELSE OpenAIEntry(msg)

\* ForExhausted leaving the loop after the first message
ForExhaustedAfterOne == Len(wire) = Len(messages) \/ Len(wire) >= 1

\* `for msg in request.messages` has no message left
ForExhausted == Len(wire) = Len(messages)

NoBody ==
    /\ messages = <<>>
    /\ target = "none"
    /\ wire = <<>>
    /\ posted = FALSE

\* no request is being handled
NoRequest ==
    /\ provider = GEMINI /\ mode = "stream"
    /\ geminiKey = "sk-1" /\ openaiKey = "sk-1"
    /\ pc = "start" /\ adapter = "none" /\ calls = 0
    /\ status = 0 /\ body = ""
    /\ read = <<>> /\ pending = <<>> /\ pendingRaise = FALSE
    /\ events = <<>> /\ origin = <<>>
    /\ clientOpen = FALSE /\ respOpen = FALSE
    /\ outcome = "running" /\ result = NoResult

\* no frame is being written
NoFrame ==
    /\ frameText = <<>>
    /\ written = <<>>

\* an empty database, no route called
NoDb ==
    /\ users = <<>>
    /\ sessions = <<>>
    /\ stored = <<>>
    /\ clock = 0
    /\ foreignKeys = FALSE
    /\ response = [status |-> 0]
    /\ issued = {}

OffRequest == NoRelays /\ NoBody /\ NoFrame /\ NoDb
OffConc == NoRequest /\ NoBody /\ NoFrame /\ NoDb
OffBody == NoRequest /\ NoRelays /\ NoFrame /\ NoDb
OffFrame == NoRequest /\ NoRelays /\ NoBody /\ NoDb
OffDb == NoRequest /\ NoRelays /\ NoBody /\ NoFrame

\* contents = [] / messages = []
BodyStart(a) ==
    /\ target = "none"
    /\ target' = a
    /\ wire' = <<>>
    /\ UNCHANGED <<messages, posted, offBodyVars>>

\* one iteration: contents.append({...}) / messages.append({...})
BodyAppend ==
    /\ target # "none"
    /\ ~posted
    /\ ~ForExhausted
    /\ wire' = Append(wire, Entry(target, messages[Len(wire) + 1]))
    /\ UNCHANGED <<messages, target, posted, offBodyVars>>

\* body = {"contents": contents, ...} / {"messages": messages, ...} is sent
BodyPost ==
    /\ target # "none"
    /\ ~posted
    /\ ForExhausted
    /\ posted' = TRUE
    /\ UNCHANGED <<messages, target, wire, offBodyVars>>

BodyInit ==
    /\ messages \in MessageLists
    /\ target = "none"
    /\ wire = <<>>
    /\ posted = FALSE
    /\ OffBody

BodyNext ==
    \/ \E a \in {"gemini", "openai"} : BodyStart(a)
    \/ BodyAppend
    \/ BodyPost

BodySpec == BodyInit /\ [][BodyNext]_vars

(***************************************************************************)
(* Initial state: one request, not yet handled                             *)
(***************************************************************************)
Init ==
    /\ provider \in Providers
    /\ mode \in {"chat", "stream"}
    /\ geminiKey \in Keys
    /\ openaiKey \in Keys
    /\ pc = "start"
    /\ adapter = "none"
    /\ calls = 0
    /\ status = 0
    /\ body = ""
    /\ read = <<>>
    /\ pending = <<>>
    /\ pendingRaise = FALSE
    /\ events = <<>>
    /\ origin = <<>>
    /\ clientOpen = FALSE
    /\ respOpen = FALSE
    /\ outcome = "running"
    /\ result = NoResult
    /\ OffRequest

\* the exception leaves every `async with` on its way out
Propagate(exc) ==
    /\ pc' = "terminated"
    /\ outcome' = "raised"
    /\ result' = Exception(exc)
    /\ clientOpen' = FALSE
    /\ respOpen' = FALSE
    /\ pending' = <<>>
    /\ pendingRaise' = FALSE

\* yield one frame and stay suspended at pc value `at`
YieldAt(ev, from, at) ==
    /\ events' = Append(events, ev)
    /\ origin' = Append(origin, from)
    /\ pc' = at

(***************************************************************************)
(* chat_stream.generate: enter get_http_client, dispatch on the provider   *)
(***************************************************************************)
\* provider = request.provider.lower() and the if / elif / else on it
Dispatch(p) ==
    IF Lower(p) = GEMINI THEN "gemini"
    ELSE IF Lower(p) = OPENAI THEN "openai"
    ELSE "none"

\* KeyMissing looking at the other provider's key
KeyMissingOtherKey(a) == IF a = "gemini" THEN openaiKey = "" ELSE geminiKey = ""

\* `not Config.GEMINI_API_KEY` / `not Config.OPENAI_API_KEY` in the branch taken
KeyMissing(a) == IF a = "gemini" THEN geminiKey = "" ELSE openaiKey = ""

KeyMessage(a) ==
    IF a = "gemini" THEN "Gemini API Key not configured"
    ELSE "OpenAI API Key not configured"

GenStart ==
    /\ mode = "stream"
    /\ pc = "start"
    /\ clientOpen' = TRUE
    /\ LET a == Dispatch(provider) IN
       IF a = "none"
       THEN /\ YieldAt(ErrorEvent("unsupported provider: ", provider), 0, "finishing")
            /\ UNCHANGED adapter
       ELSE IF KeyMissing(a)
       THEN /\ YieldAt(ErrorEvent(KeyMessage(a), <<>>), 0, "finishing")
            /\ UNCHANGED adapter
       ELSE /\ adapter' = a
            /\ pc' = "connect"
            /\ UNCHANGED <<events, origin>>
    /\ UNCHANGED <<offRequestVars, provider, mode, geminiKey, openaiKey, calls, status, body, read,
                   pending, pendingRaise, respOpen, outcome, result>>

(***************************************************************************)
(* stream_gemini / stream_openai: client.stream("POST", ...)               *)
(***************************************************************************)
\* Connect with one retry after a transport failure
ConnectRetry ==
    /\ pc = "connect"
    /\ calls' = calls + 1
    /\ \/ /\ IF calls = 0
             THEN /\ pc' = "connect"
                  /\ UNCHANGED <<pending, pendingRaise, clientOpen, respOpen, outcome, result>>
             ELSE Propagate("httpx.TransportError")
          /\ UNCHANGED <<status, body>>
       \/ /\ \E s \in Statuses :
               /\ status' = s
               /\ body' \in (IF s = 200 THEN {""} ELSE Bodies)
          /\ respOpen' = TRUE
          /\ pc' = "status"
          /\ UNCHANGED <<pending, pendingRaise, clientOpen, outcome, result>>
    /\ UNCHANGED <<offRequestVars, provider, mode, geminiKey, openaiKey, adapter, read, events, origin>>

Connect ==
    /\ pc = "connect"
    /\ calls' = calls + 1
    /\ \/ /\ Propagate("httpx.TransportError")
          /\ UNCHANGED <<status, body>>
       \/ /\ \E s \in Statuses :
               /\ status' = s
               /\ body' \in (IF s = 200 THEN {""} ELSE Bodies)
          /\ respOpen' = TRUE
          /\ pc' = "status"
          /\ UNCHANGED <<pending, pendingRaise, clientOpen, outcome, result>>
    /\ UNCHANGED <<offRequestVars, provider, mode, geminiKey, openaiKey, adapter, read, events, origin>>

\* CheckStatus without the `return` after the error frame: the line loop runs
CheckStatusNoReturn ==
    /\ pc = "status"
    /\ IF status # 200
       THEN YieldAt(ErrorEvent(body, <<>>), 0, "lines")
       ELSE /\ pc' = "lines"
            /\ UNCHANGED <<events, origin>>
    /\ UNCHANGED <<offRequestVars, provider, mode, geminiKey, openaiKey, adapter, calls, status, body, read,
                   pending, pendingRaise, clientOpen, respOpen, outcome, result>>

\* CheckStatus with `break`-like fall through to the final yield instead of `return`
CheckStatusFallsThrough ==
    /\ pc = "status"
    /\ IF status # 200
       THEN YieldAt(ErrorEvent(body, <<>>), 0, "eof")
       ELSE /\ pc' = "lines"
            /\ UNCHANGED <<events, origin>>
    /\ UNCHANGED <<offRequestVars, provider, mode, geminiKey, openaiKey, adapter, calls, status, body, read,
                   pending, pendingRaise, clientOpen, respOpen, outcome, result>>

\* if response.status_code != 200: aread, yield the error frame
CheckStatus ==
    /\ pc = "status"
    /\ IF status # 200
       THEN \/ /\ YieldAt(ErrorEvent(body, <<>>), 0, "finishing")
               /\ UNCHANGED <<pending, pendingRaise, clientOpen, respOpen, outcome, result>>
            \/ /\ Propagate("httpx.TransportError")
               /\ UNCHANGED <<events, origin>>
       ELSE /\ pc' = "lines"
            /\ UNCHANGED <<events, origin, pending, pendingRaise, clientOpen, respOpen,
                           outcome, result>>
    /\ UNCHANGED <<offRequestVars, provider, mode, geminiKey, openaiKey, adapter, calls, status, body, read>>

ChunkEvents(a, chunk) ==
    IF a = "gemini" THEN GeminiChunkEvents(chunk) ELSE OpenAIChunkEvents(chunk)

\* TryChunk with no `except json.JSONDecodeError`
TryChunkUncaught(a, json) ==
    IF json.t = "invalid" THEN Raises ELSE ChunkEvents(a, json)

\* try: chunk = json.loads(json_str) ... except json.JSONDecodeError: pass
TryChunk(a, json) ==
    IF json.t = "invalid" THEN NoEvents ELSE ChunkEvents(a, json)

\* IsSentinel comparing the whole line, prefix included
IsSentinelWholeLine(a, line) == a = "openai" /\ line.prefix = "" /\ line.raw = "[DONE]"

\* stream_openai only: if json_str == "[DONE]"
IsSentinel(a, line) == a = "openai" /\ line.raw = "[DONE]"

\* AfterSentinel as `return`: the generator finishes without the final yield
AfterSentinelReturn == "finishing"

\* `break` leaves the loop and the `async with`; the final yield follows
AfterSentinel == "eof"

\* one iteration of `async for line in response.aiter_lines()` up to its first yield
NextLine(line) ==
    /\ pc = "lines"
    /\ Len(read) < MaxLines
    /\ read' = Append(read, line)
    /\ IF ~HasDataPrefix(line)
       THEN UNCHANGED <<pc, pending, pendingRaise, respOpen>>
       ELSE IF IsSentinel(adapter, line)
       THEN /\ pc' = AfterSentinel
            /\ respOpen' = FALSE
            /\ UNCHANGED <<pending, pendingRaise>>
       ELSE LET r == TryChunk(adapter, line.json) IN
            /\ pending' = r.evs
            /\ pendingRaise' = r.raises
            /\ pc' = IF r.evs = <<>> /\ ~r.raises THEN "lines" ELSE "chunk"
            /\ UNCHANGED respOpen
    /\ UNCHANGED <<offRequestVars, provider, mode, geminiKey, openaiKey, adapter, calls, status, body,
                   events, origin, clientOpen, outcome, result>>

\* aiter_lines is exhausted: leave `async with client.stream(...)`
EndOfStream ==
    /\ pc = "lines"
    /\ pc' = "eof"
    /\ respOpen' = FALSE
    /\ UNCHANGED <<offRequestVars, provider, mode, geminiKey, openaiKey, adapter, calls, status, body,
                   read, pending, pendingRaise, events, origin, clientOpen, outcome,
                   result>>

\* the transport fails while the next line is awaited
ReadFails ==
    /\ pc = "lines"
    /\ Propagate("httpx.TransportError")
    /\ UNCHANGED <<offRequestVars, provider, mode, geminiKey, openaiKey, adapter, calls, status, body,
                   read, events, origin>>

\* the next `yield` inside the chunk
Yield ==
    /\ pc = "chunk"
    /\ pending # <<>>
    /\ events' = Append(events, Head(pending))
    /\ origin' = Append(origin, Len(read))
    /\ pending' = Tail(pending)
    /\ pc' = IF Tail(pending) = <<>> /\ ~pendingRaise THEN "lines" ELSE "chunk"
    /\ UNCHANGED <<offRequestVars, provider, mode, geminiKey, openaiKey, adapter, calls, status, body,
                   read, pendingRaise, clientOpen, respOpen, outcome, result>>

\* the chunk does not have the shape the code indexes into
RaiseInChunk ==
    /\ pc = "chunk"
    /\ pending = <<>>
    /\ pendingRaise
    /\ Propagate("TypeError")
    /\ UNCHANGED <<offRequestVars, provider, mode, geminiKey, openaiKey, adapter, calls, status, body,
                   read, events, origin>>

\* yield 'data: {"type": "done"}\n\n' after the `async with`
YieldDone ==
    /\ pc = "eof"
    /\ YieldAt(DoneEvent, 0, "finishing")
    /\ UNCHANGED <<offRequestVars, provider, mode, geminiKey, openaiKey, adapter, calls, status, body,
                   read, pending, pendingRaise, clientOpen, respOpen, outcome, result>>

\* the generator is resumed after its last yield and finishes
Return ==
    /\ pc = "finishing"
    /\ pc' = "terminated"
    /\ outcome' = "ended"
    /\ clientOpen' = FALSE
    /\ respOpen' = FALSE
    /\ UNCHANGED <<offRequestVars, provider, mode, geminiKey, openaiKey, adapter, calls, status, body,
                   read, pending, pendingRaise, events, origin, result>>

\* the generator is suspended at a `yield` (or runs on to one without awaiting)
SuspendedAtYield ==
    \/ pc \in {"chunk", "eof", "finishing"}
    \/ pc = "lines" /\ events # <<>> /\ origin[Len(origin)] = Len(read)

\* the consumer goes away while the relay awaits the upstream: the
\* cancellation is raised at that await and leaves every `async with`
Abandon ==
    /\ mode = "stream"
    /\ pc \in {"connect", "status", "lines"}
    /\ pc' = "terminated"
    /\ outcome' = "abandoned"
    /\ clientOpen' = FALSE
    /\ respOpen' = FALSE
    /\ pending' = <<>>
    /\ pendingRaise' = FALSE
    /\ UNCHANGED <<offRequestVars, provider, mode, geminiKey, openaiKey, adapter, calls, status, body,
                   read, events, origin, result>>

\* the consumer goes away while generate() is suspended at a yield: nothing
\* runs in the generators until they are closed
AbandonAtYield ==
    /\ mode = "stream"
    /\ SuspendedAtYield
    /\ pc' = "closing"
    /\ outcome' = "abandoned"
    /\ pending' = <<>>
    /\ pendingRaise' = FALSE
    /\ UNCHANGED <<offRequestVars, provider, mode, geminiKey, openaiKey, adapter, calls, status, body,
                   read, events, origin, clientOpen, respOpen, result>>

\* generate() is closed: GeneratorExit at its yield leaves
\* `async with get_http_client()`; the relay it was iterating is not closed by it
CloseGenerate ==
    /\ pc = "closing"
    /\ clientOpen' = FALSE
    /\ pc' = IF respOpen THEN "closing_relay" ELSE "terminated"
    /\ UNCHANGED <<offRequestVars, provider, mode, geminiKey, openaiKey, adapter, calls, status, body,
                   read, pending, pendingRaise, events, origin, respOpen, outcome,
                   result>>

\* CloseRelay when the response is not acquired by `async with`
CloseRelayLeavesResponse ==
    /\ pc = "closing_relay"
    /\ pc' = "terminated"
    /\ UNCHANGED <<offRequestVars, provider, mode, geminiKey, openaiKey, adapter, calls, status, body,
                   read, pending, pendingRaise, events, origin, clientOpen, respOpen,
                   outcome, result>>

\* the relay generator, no longer referenced, is closed: GeneratorExit at its
\* yield leaves `async with client.stream(...)`
CloseRelay ==
    /\ pc = "closing_relay"
    /\ respOpen' = FALSE
    /\ pc' = "terminated"
    /\ UNCHANGED <<offRequestVars, provider, mode, geminiKey, openaiKey, adapter, calls, status, body,
                   read, pending, pendingRaise, events, origin, clientOpen, outcome,
                   result>>

(***************************************************************************)
(* chat: POST /api/chat                                                    *)
(***************************************************************************)
ChatFail(status_code, msg, arg) ==
    /\ result' = HTTPException(status_code, msg, arg)
    /\ outcome' = "http_error"
    /\ pc' = "terminated"
    /\ clientOpen' = FALSE

ChatStart ==
    /\ mode = "chat"
    /\ pc = "start"
    /\ LET a == Dispatch(provider) IN
       IF a = "none"
       THEN /\ ChatFail(400, "unsupported provider: ", provider)
            /\ UNCHANGED adapter
       ELSE IF KeyMissing(a)
       THEN /\ ChatFail(500, KeyMessage(a), <<>>)
            /\ UNCHANGED adapter
       ELSE /\ adapter' = a
            /\ pc' = "post"
            /\ clientOpen' = TRUE
            /\ UNCHANGED <<outcome, result>>
    /\ UNCHANGED <<offRequestVars, provider, mode, geminiKey, openaiKey, calls, status, body, read,
                   pending, pendingRaise, events, origin, respOpen>>

\* call_gemini / call_openai: response = await client.post(...)
ChatPost ==
    /\ pc = "post"
    /\ calls' = calls + 1
    /\ \/ /\ Propagate("httpx.TransportError")
          /\ UNCHANGED <<status, body>>
       \/ /\ \E s \in Statuses :
               /\ status' = s
               /\ body' \in (IF s = 200 THEN {""} ELSE Bodies)
          /\ pc' = "respond"
          /\ UNCHANGED <<pending, pendingRaise, clientOpen, respOpen, outcome, result>>
    /\ UNCHANGED <<offRequestVars, provider, mode, geminiKey, openaiKey, adapter, read, events, origin>>

Single(a, data) == IF a = "gemini" THEN GeminiSingle(data) ELSE OpenAISingle(data)

\* NotOK taking every answer for a success
NotOKNever == FALSE

\* if response.status_code != 200:
NotOK == status # 200

\* the status check and the parse of the answer
ChatRespond ==
    /\ pc = "respond"
    /\ pc' = "terminated"
    /\ clientOpen' = FALSE
    /\ IF NotOK
       THEN /\ result' = HTTPException(status, body, <<>>)
            /\ outcome' = "http_error"
            /\ UNCHANGED read
       ELSE \E data \in SingleBodies(adapter) :
               /\ read' = <<data>>
               /\ result' = Single(adapter, data)
               /\ outcome' = IF Single(adapter, data).kind = "Exception"
                             THEN "raised" ELSE "returned"
    /\ UNCHANGED <<offRequestVars, provider, mode, geminiKey, openaiKey, adapter, calls, status, body,
                   pending, pendingRaise, events, origin, respOpen>>

Next ==
    \/ GenStart
    \/ Connect
    \/ CheckStatus
    \/ \E line \in LinesOf(adapter) : NextLine(line)
    \/ EndOfStream
    \/ ReadFails
    \/ Yield
    \/ RaiseInChunk
    \/ YieldDone
    \/ Return
    \/ Abandon
    \/ AbandonAtYield
    \/ CloseGenerate
    \/ CloseRelay
    \/ ChatStart
    \/ ChatPost
    \/ ChatRespond

Spec == Init /\ [][Next]_vars

\* the event loop runs the close of a generator that was left suspended
FairSpec == Spec /\ WF_vars(CloseGenerate) /\ WF_vars(CloseRelay)

(***************************************************************************)
(* The frames written to the client, as the sequence of their characters;  *)
(* a piece of fixed text of the source is kept as one element              *)
(***************************************************************************)
Quote == "\""
Backslash == "\\"
Newline == "\n"
Chars == {"a", Quote, Backslash, Newline}
Texts == UNION {[1..n -> Chars] : n \in 0..MaxText}

\* json.dumps(text) without the enclosing quotes: ", \ and newline are escaped
RECURSIVE Escaped(_)
Escaped(t) ==
    IF t = <<>> THEN <<>>
    ELSE (CASE Head(t) = Quote -> <<Backslash, Quote>>
            [] Head(t) = Backslash -> <<Backslash, Backslash>>
            [] Head(t) = Newline -> <<Backslash, "n">>
            [] OTHER -> <<Head(t)>>) \o Escaped(Tail(t))

\* json.dumps(text)
JsonDumps(t) == <<Quote>> \o Escaped(t) \o <<Quote>>

FrameEnd == <<Newline, Newline>>
ErrorHead == <<"data: ", "{", "\"error\"", ": ", Quote>>
ErrorTail == <<Quote, "}">>

\* f'data: {{"error": "<msg>{arg}"}}\n\n': the text is put in as it is
ErrorFrame(msg, arg) ==
    ErrorHead \o (IF msg = "" THEN <<>> ELSE <<msg>>) \o arg \o ErrorTail \o FrameEnd

TextHead(type) == <<"data: ", "{", "\"type\"", ": ", Quote, type, Quote, ", ", "\"data\"", ": ">>

\* f'data: {{"type": "<type>", "data": {json.dumps(text)}}}\n\n'
TextFrame(type, t) == TextHead(type) \o JsonDumps(t) \o <<"}">> \o FrameEnd

\* 'data: {"type": "done"}\n\n'
DoneFrame == <<"data: ", "{", "\"type\"", ": ", Quote, "done", Quote, "}">> \o FrameEnd

\* the upstream error body is written: stream_gemini / stream_openai, status not 200
WriteUpstreamError ==
    /\ written = <<>>
    /\ written' = ErrorFrame("", frameText)
    /\ UNCHANGED <<frameText, offFrameVars>>

\* the provider name of the request is written: the else branch of generate()
WriteUnsupported ==
    /\ written = <<>>
    /\ written' = ErrorFrame("unsupported provider: ", frameText)
    /\ UNCHANGED <<frameText, offFrameVars>>

\* a missing API key is reported
WriteKeyMissing(a) ==
    /\ written = <<>>
    /\ written' = ErrorFrame(KeyMessage(a), <<>>)
    /\ UNCHANGED <<frameText, offFrameVars>>

\* a part's text is written as content or thinking
WriteText(type) ==
    /\ written = <<>>
    /\ written' = TextFrame(type, frameText)
    /\ UNCHANGED <<frameText, offFrameVars>>

WriteDone ==
    /\ written = <<>>
    /\ written' = DoneFrame
    /\ UNCHANGED <<frameText, offFrameVars>>

FrameInit ==
    /\ frameText \in Texts
    /\ written = <<>>
    /\ OffFrame

FrameNext ==
    \/ WriteUpstreamError
    \/ WriteUnsupported
    \/ \E a \in {"gemini", "openai"} : WriteKeyMissing(a)
    \/ \E type \in {"content", "thinking"} : WriteText(type)
    \/ WriteDone

FrameSpec == FrameInit /\ [][FrameNext]_vars

(***************************************************************************)
(* The database (database/models.py, database/service.py) and the session  *)
(* and message routes (routes/sessions.py, routes/users.py). A route is    *)
(* `async def` around synchronous database calls, so it runs as one step.  *)
(***************************************************************************)
\* the user ids that valid access tokens carry; a token outlives its user
Callers == {1, 2}
RowIds == 1..MaxRows
TokenCounts == {0, 3}

Largest(S) == CHOOSE x \in S : \A y \in S : x >= y

\* Column(Integer, primary_key=True) on SQLite is the rowid: a new row gets
\* one more than the largest id in the table
NextRowId(rows) == IF DOMAIN rows = {} THEN 1 ELSE Largest(DOMAIN rows) + 1

Without(rows, ids) == [i \in DOMAIN rows \ ids |-> rows[i]]

\* datetime.utcnow() at this step
Now == clock + 1

\* pwd_context.hash / pwd_context.verify
HashPassword(password) == <<"bcrypt", password>>
VerifyPassword(password, hash) == hash = HashPassword(password)

User(username, email, password_hash, at) ==
    [username |-> username, email |-> email, password_hash |-> password_hash,
     is_active |-> TRUE, created_at |-> at, last_login_at |-> 0]

ChatSession(user_id, at) ==
    [user_id |-> user_id, message_count |-> 0, total_tokens |-> 0,
     is_archived |-> FALSE, is_pinned |-> FALSE, created_at |-> at, updated_at |-> at]

\* owner is not a column: the owner of the session when the message was made
ChatMessage(session_id, total_tokens, at, owner) ==
    [session_id |-> session_id, total_tokens |-> total_tokens, created_at |-> at,
     owner |-> owner]

\* GetSessionById not looking at the owner
GetSessionByIdAnyUser(session_id, user_id) == session_id \in DOMAIN sessions

\* get_session_by_id(session_id, user_id) finds a row
GetSessionById(session_id, user_id) ==
    /\ session_id \in DOMAIN sessions
    /\ sessions[session_id].user_id = user_id

MessagesOf(session_id) == {m \in DOMAIN stored : stored[m].session_id = session_id}
SessionsOf(user_id) == {c \in DOMAIN sessions : sessions[c].user_id = user_id}

\* ON DELETE CASCADE of chat_messages.session_id, done by SQLite only when it
\* enforces foreign keys; Query.delete() runs no ORM cascade
CascadeMessages(session_ids) ==
    IF foreignKeys
    THEN Without(stored, {m \in DOMAIN stored : stored[m].session_id \in session_ids})
    ELSE stored

Ok == [status |-> 200]
NotFound(detail) == [status |-> 404, detail |-> detail]

\* POST /api/sessions
CreateSession(u) ==
    /\ clock < MaxClock
    /\ NextRowId(sessions) \in RowIds
    /\ clock' = Now
    /\ IF foreignKeys /\ u \notin DOMAIN users
       THEN /\ response' = [status |-> 500]
            /\ UNCHANGED sessions
       ELSE /\ sessions' = sessions @@ (NextRowId(sessions) :> ChatSession(u, Now))
            /\ response' = Ok
    /\ UNCHANGED <<users, stored, foreignKeys, issued, offDbVars>>

\* GET /api/sessions/{session_id} and GET /api/sessions/{session_id}/messages
ListMessages(u, session_id) ==
    /\ response' = IF GetSessionById(session_id, u)
                   THEN [status |-> 200, messages |-> MessagesOf(session_id)]
                   ELSE NotFound("session")
    /\ UNCHANGED <<users, sessions, stored, clock, foreignKeys, issued, offDbVars>>

\* update_session(session_id, user_id, key=value)
UpdateSession(u, session_id, key, value) ==
    /\ clock < MaxClock
    /\ clock' = Now
    /\ IF GetSessionById(session_id, u)
       THEN /\ sessions' = [sessions EXCEPT ![session_id][key] = value,
                                            ![session_id].updated_at = Now]
            /\ response' = Ok
       ELSE /\ response' = NotFound("session")
            /\ UNCHANGED sessions
    /\ UNCHANGED <<users, stored, foreignKeys, issued, offDbVars>>

\* POST /api/sessions/{session_id}/archive and /unarchive
ArchiveSession(u, session_id, archived) ==
    UpdateSession(u, session_id, "is_archived", archived)

\* POST /api/sessions/{session_id}/pin and /unpin
PinSession(u, session_id, pinned) ==
    UpdateSession(u, session_id, "is_pinned", pinned)

\* DELETE /api/sessions/{session_id}
DeleteSession(u, session_id) ==
    /\ clock < MaxClock
    /\ clock' = Now
    /\ IF GetSessionById(session_id, u)
       THEN /\ sessions' = Without(sessions, {session_id})
            /\ stored' = CascadeMessages({session_id})
            /\ response' = Ok
       ELSE /\ response' = NotFound("session")
            /\ UNCHANGED <<sessions, stored>>
    /\ UNCHANGED <<users, foreignKeys, issued, offDbVars>>

\* POST /api/sessions/{session_id}/messages
CreateMessage(u, session_id, total_tokens) ==
    /\ clock < MaxClock
    /\ NextRowId(stored) \in RowIds
    /\ clock' = Now
    /\ IF GetSessionById(session_id, u)
       THEN /\ stored' = stored @@
                  (NextRowId(stored) :> ChatMessage(session_id, total_tokens, Now, u))
            /\ sessions' = [sessions EXCEPT
                               ![session_id].message_count = @ + 1,
                               ![session_id].total_tokens = @ + total_tokens,
                               ![session_id].updated_at = Now]
            /\ response' = Ok
       ELSE /\ response' = NotFound("session")
            /\ UNCHANGED <<sessions, stored>>
    /\ UNCHANGED <<users, foreignKeys, issued, offDbVars>>

\* Discount leaving total_tokens as it was
DiscountCountOnly(session_id, message_id) ==
    [sessions EXCEPT ![session_id].message_count = @ - 1]

\* delete_message: the UPDATE of the session's counters
Discount(session_id, message_id) ==
    [sessions EXCEPT ![session_id].message_count = @ - 1,
                     ![session_id].total_tokens = @ - stored[message_id].total_tokens]

\* DELETE /api/sessions/{session_id}/messages/{message_id}
DeleteMessage(u, session_id, message_id) ==
    /\ clock < MaxClock
    /\ clock' = Now
    /\ IF ~GetSessionById(session_id, u)
       THEN /\ response' = NotFound("session")
            /\ UNCHANGED <<sessions, stored>>
       ELSE IF message_id \in MessagesOf(session_id)
       THEN /\ sessions' = Discount(session_id, message_id)
            /\ stored' = Without(stored, {message_id})
            /\ response' = Ok
       ELSE /\ response' = NotFound("message")
            /\ UNCHANGED <<sessions, stored>>
    /\ UNCHANGED <<users, foreignKeys, issued, offDbVars>>

\* DELETE /api/sessions/{session_id}/messages
ClearMessages(u, session_id) ==
    /\ clock < MaxClock
    /\ clock' = Now
    /\ IF GetSessionById(session_id, u)
       THEN /\ stored' = Without(stored, MessagesOf(session_id))
            /\ sessions' = [sessions EXCEPT ![session_id].message_count = 0,
                                            ![session_id].total_tokens = 0,
                                            ![session_id].updated_at = Now]
            /\ response' = Ok
       ELSE /\ response' = NotFound("session")
            /\ UNCHANGED <<sessions, stored>>
    /\ UNCHANGED <<users, foreignKeys, issued, offDbVars>>

\* DELETE /api/users/me: delete_user(current_user["user_id"])
DeleteAccount(u) ==
    /\ clock < MaxClock
    /\ clock' = Now
    /\ IF u \in DOMAIN users
       THEN /\ users' = Without(users, {u})
            /\ sessions' = IF foreignKeys THEN Without(sessions, SessionsOf(u))
                           ELSE sessions
            /\ stored' = CascadeMessages(SessionsOf(u))
            /\ response' = Ok
       ELSE /\ response' = NotFound("user")
            /\ UNCHANGED <<users, sessions, stored>>
    /\ UNCHANGED <<foreignKeys, issued, offDbVars>>

TwoUsers ==
    <<User("ann", "ann@x.io", HashPassword("pw1"), 0),
      User("bob", "bob@x.io", HashPassword("pw2"), 0)>>

\* two registered users, no session yet
DbInit ==
    /\ users = TwoUsers
    /\ sessions = <<>>
    /\ stored = <<>>
    /\ clock = 0
    /\ foreignKeys \in BOOLEAN
    /\ response = [status |-> 0]
    /\ issued = {}
    /\ OffDb

DbNext ==
    \E u \in Callers :
        \/ CreateSession(u)
        \/ DeleteAccount(u)
        \/ \E session_id \in RowIds :
              \/ ListMessages(u, session_id)
              \/ \E flag \in BOOLEAN : ArchiveSession(u, session_id, flag)
              \/ \E flag \in BOOLEAN : PinSession(u, session_id, flag)
              \/ DeleteSession(u, session_id)
              \/ \E total_tokens \in TokenCounts : CreateMessage(u, session_id, total_tokens)
              \/ \E message_id \in RowIds : DeleteMessage(u, session_id, message_id)
              \/ ClearMessages(u, session_id)

DbSpec == DbInit /\ [][DbNext]_vars

\* the message operations alone, on two sessions that stay
CounterInit ==
    /\ users = TwoUsers
    /\ sessions = <<ChatSession(1, 0), ChatSession(2, 0)>>
    /\ stored = <<>>
    /\ clock = 0
    /\ foreignKeys \in BOOLEAN
    /\ response = [status |-> 0]
    /\ issued = {}
    /\ OffDb

CounterNext ==
    \E u \in Callers, session_id \in RowIds :
        \/ \E total_tokens \in TokenCounts : CreateMessage(u, session_id, total_tokens)
        \/ \E message_id \in RowIds : DeleteMessage(u, session_id, message_id)
        \/ ClearMessages(u, session_id)

CounterSpec == CounterInit /\ [][CounterNext]_vars

\* GET /api/sessions: limit and offset of the query
Limits == {1, 50}
Offsets == {0, 1}

\* Matching with the archived sessions always in
MatchingWithArchived(user_id, include_archived) == SessionsOf(user_id)

\* get_user_sessions: the rows the filters keep
Matching(user_id, include_archived) ==
    {c \in SessionsOf(user_id) : include_archived \/ ~sessions[c].is_archived}

\* Before ordering by updated_at alone
BeforeByUpdateOnly(a, b) == sessions[a].updated_at > sessions[b].updated_at

\* order_by(desc(is_pinned), desc(updated_at)): a has to come before b
Before(a, b) ==
    \/ sessions[a].is_pinned /\ ~sessions[b].is_pinned
    \/ /\ sessions[a].is_pinned = sessions[b].is_pinned
       /\ sessions[a].updated_at > sessions[b].updated_at

Orders(ids) ==
    {q \in [1..Cardinality(ids) -> ids] :
        \A i, j \in 1..Cardinality(ids) : i # j => q[i] # q[j]}

\* the orders the database may return the rows in: rows equal in both keys
\* come in any order
Listings(ids) ==
    {q \in Orders(ids) :
        \A i, j \in 1..Cardinality(ids) : i < j => ~Before(q[j], q[i])}

\* .offset(offset).limit(limit)
Page(q, limit, offset) ==
    SubSeq(q, offset + 1, IF offset + limit < Len(q) THEN offset + limit ELSE Len(q))

\* GET /api/sessions
ListSessions(u, include_archived, limit, offset) ==
    /\ \E q \in Listings(Matching(u, include_archived)) :
          response' = [status |-> 200, sessions |-> Page(q, limit, offset)]
    /\ UNCHANGED <<users, sessions, stored, clock, foreignKeys, issued, offDbVars>>

ListNext ==
    \E u \in Callers :
        \/ CreateSession(u)
        \/ \E include_archived \in BOOLEAN, limit \in Limits, offset \in Offsets :
              ListSessions(u, include_archived, limit, offset)
        \/ \E session_id \in RowIds, flag \in BOOLEAN :
              \/ ArchiveSession(u, session_id, flag)
              \/ PinSession(u, session_id, flag)

ListSpec == DbInit /\ [][ListNext]_vars

(***************************************************************************)
(* Accounts and tokens (auth/utils.py, routes/auth.py)                     *)
(***************************************************************************)
\* ACCESS_TOKEN_EXPIRE_MINUTES and REFRESH_TOKEN_EXPIRE_DAYS, in minutes
AccessTokenExpire == 1440
RefreshTokenExpire == 43200

Usernames == {"ann", "bob"}
Emails == {"ann@x.io", "bob@x.io"}
Passwords == {"pw1", "pw2"}

\* str(user_id) and int(payload["sub"])
StrOf(n) == <<"str", n>>
IntOf(str) == str[2]

\* jwt.encode: the payload under a signature
Encode(payload) == [payload |-> payload, signed |-> TRUE]
\* a token whose signature does not verify
Tampered(token) == [token EXCEPT !.signed = FALSE]

NoPayload == <<>>
NoCredentials == <<>>

\* decode_token: the payload, None on any JWTError (signature, expiry)
DecodeToken(token) ==
    IF token.signed /\ token.payload.exp > clock THEN token.payload ELSE NoPayload

CreateAccessToken(user_id, username) ==
    Encode([sub |-> StrOf(user_id), username |-> username, type |-> "access",
            exp |-> Now + AccessTokenExpire])

CreateRefreshToken(user_id) ==
    Encode([sub |-> StrOf(user_id), type |-> "refresh",
            exp |-> Now + RefreshTokenExpire])

TokenResponse(user_id) ==
    [status |-> 200,
     access_token |-> CreateAccessToken(user_id, users'[user_id].username),
     refresh_token |-> CreateRefreshToken(user_id),
     user |-> user_id]

Unauthorized == [status |-> 401]
Forbidden == [status |-> 403]
BadRequest(detail) == [status |-> 400, detail |-> detail]

\* the handler raises before any write
Refuse(answer) ==
    /\ response' = answer
    /\ UNCHANGED <<users, clock, issued>>

\* the handler answers with a fresh pair of tokens
Issue(user_id) ==
    /\ clock < MaxClock
    /\ clock' = Now
    /\ response' = TokenResponse(user_id)
    /\ issued' = issued \cup {response'.access_token, response'.refresh_token}

\* get_user_by_username / get_user_by_email: the ids found
ByUsername(username) == {u \in DOMAIN users : users[u].username = username}
ByEmail(email) == {u \in DOMAIN users : users[u].email = email}

\* EmailTaken never finding a row
EmailTakenNever(email) == FALSE

EmailTaken(email) == ByEmail(email) # {}

\* POST /api/auth/register
Register(username, email, password) ==
    /\ IF ByUsername(username) # {} THEN Refuse(BadRequest("username"))
       ELSE IF EmailTaken(email) THEN Refuse(BadRequest("email"))
       ELSE /\ NextRowId(users) \in RowIds
            /\ users' = users @@
                  (NextRowId(users) :> User(username, email, HashPassword(password), Now))
            /\ Issue(NextRowId(users))
    /\ UNCHANGED <<sessions, stored, foreignKeys, offDbVars>>

\* Active holding of every row
ActiveAlways(user) == TRUE

Active(user) == user.is_active

\* POST /api/auth/login
Login(name, password) ==
    /\ LET found == IF ByUsername(name) # {} THEN ByUsername(name) ELSE ByEmail(name)
       IN IF found = {} THEN Refuse(Unauthorized)
          ELSE LET u == CHOOSE x \in found : TRUE
               IN IF ~VerifyPassword(password, users[u].password_hash)
                  THEN Refuse(Unauthorized)
                  ELSE IF ~Active(users[u]) THEN Refuse(Forbidden)
                  ELSE /\ users' = [users EXCEPT ![u].last_login_at = Now]
                       /\ Issue(u)
    /\ UNCHANGED <<sessions, stored, foreignKeys, offDbVars>>

\* payload.get(key)
PayloadGet(payload, key) == IF key \in DOMAIN payload THEN payload[key] ELSE "None"

\* IsType taking a payload of any type
IsTypeAny(payload, type) == TRUE

\* payload.get("type") == type
IsType(payload, type) == PayloadGet(payload, "type") = type

\* POST /api/auth/refresh
Refresh(token) ==
    /\ LET payload == DecodeToken(token)
       IN IF payload = NoPayload \/ ~IsType(payload, "refresh") THEN Refuse(Unauthorized)
          ELSE LET user_id == IntOf(payload.sub)
               IN IF user_id \notin DOMAIN users \/ ~Active(users[user_id])
                  THEN Refuse(Unauthorized)
                  ELSE /\ users' = users
                       /\ Issue(user_id)
    /\ UNCHANGED <<sessions, stored, foreignKeys, offDbVars>>

\* Depends(get_current_user)
GetCurrentUser(credentials) ==
    /\ IF credentials = NoCredentials THEN response' = Unauthorized
       ELSE LET payload == DecodeToken(credentials)
            IN IF payload = NoPayload \/ ~IsType(payload, "access")
               THEN response' = Unauthorized
               ELSE response' = [status |-> 200, user_id |-> IntOf(payload.sub),
                                 username |-> PayloadGet(payload, "username")]
    /\ UNCHANGED <<users, clock, issued, sessions, stored, foreignKeys, offDbVars>>

\* update_user(user_id, is_active=False)
Deactivate(user_id) ==
    /\ clock < MaxClock
    /\ user_id \in DOMAIN users
    /\ users[user_id].is_active
    /\ users' = [users EXCEPT ![user_id].is_active = FALSE]
    /\ clock' = Now
    /\ UNCHANGED <<response, issued, sessions, stored, foreignKeys, offDbVars>>

\* the tokens of the last answer
Handed ==
    IF "access_token" \in DOMAIN response
    THEN {response.access_token, response.refresh_token}
    ELSE {}

\* what a client can send as a token: one that was issued, or the one just
\* handed out with its signature broken
Presentable == issued \cup {Tampered(token) : token \in Handed}

AuthInit ==
    /\ users = <<>>
    /\ sessions = <<>>
    /\ stored = <<>>
    /\ clock = 0
    /\ foreignKeys \in BOOLEAN
    /\ response = [status |-> 0]
    /\ issued = {}
    /\ OffDb

AuthNext ==
    \/ \E username \in Usernames, email \in Emails, password \in Passwords :
          Register(username, email, password)
    \/ \E name \in Usernames \cup Emails, password \in Passwords : Login(name, password)
    \/ \E token \in Presentable : Refresh(token)
    \/ \E credentials \in Presentable \cup {NoCredentials} : GetCurrentUser(credentials)
    \/ \E user_id \in RowIds : Deactivate(user_id)
    \/ \E token \in issued :
          /\ IsType(token.payload, "access")
          /\ DeleteAccount(IntOf(token.payload.sub))

AuthSpec == AuthInit /\ [][AuthNext]_vars

(***************************************************************************)
(* Concurrent streaming requests: the steps of the relay of request r from *)
(* one suspension point (an await or a yield) to the next                  *)
(***************************************************************************)
ConcLines(a) ==
    IF a = "gemini" THEN {GeminiTwoLine, GeminiBadPartLine}
    ELSE {OpenAIHiLine, DoneLine}

Frame(r) == relays[Slot(r)]
Resume(r, frame) == relays' = [relays EXCEPT ![Slot(r)] = frame]
Deliver(r, ev) == received' = [received EXCEPT ![r] = Append(@, ev)]

\* generate() calls stream_X(client, request); client.stream answers
ConcConnect(r) ==
    /\ Frame(r).pc = "connect"
    /\ \E s \in Statuses :
          IF s # 200
          THEN /\ Resume(r, [Frame(r) EXCEPT !.adapter = requests[r], !.status = s,
                                             !.pc = "finishing"])
               /\ Deliver(r, ErrorEvent("server error", <<>>))
          ELSE /\ Resume(r, [Frame(r) EXCEPT !.adapter = requests[r], !.status = s,
                                             !.pc = "lines"])
               /\ UNCHANGED received
    /\ UNCHANGED <<requests, delivered, offConcVars>>

\* one iteration of `async for line in response.aiter_lines()` up to its first yield
ConcNextLine(r, line) ==
    /\ Frame(r).pc = "lines"
    /\ Len(delivered[r]) < ConcMaxLines
    /\ delivered' = [delivered EXCEPT ![r] = Append(@, line)]
    /\ IF ~HasDataPrefix(line)
       THEN UNCHANGED relays
       ELSE IF IsSentinel(Frame(r).adapter, line)
       THEN Resume(r, [Frame(r) EXCEPT !.pc = AfterSentinel])
       ELSE LET c == TryChunk(Frame(r).adapter, line.json) IN
            Resume(r, [Frame(r) EXCEPT
                          !.pending = c.evs,
                          !.pendingRaise = c.raises,
                          !.pc = IF c.evs = <<>> /\ ~c.raises THEN "lines" ELSE "chunk"])
    /\ UNCHANGED <<requests, received, offConcVars>>

ConcEndOfStream(r) ==
    /\ Frame(r).pc = "lines"
    /\ Resume(r, [Frame(r) EXCEPT !.pc = "eof"])
    /\ UNCHANGED <<requests, delivered, received, offConcVars>>

ConcYield(r) ==
    /\ Frame(r).pc = "chunk"
    /\ Frame(r).pending # <<>>
    /\ Deliver(r, Head(Frame(r).pending))
    /\ Resume(r, [Frame(r) EXCEPT
                     !.pending = Tail(@),
                     !.pc = IF Tail(Frame(r).pending) = <<>> /\ ~Frame(r).pendingRaise
                            THEN "lines" ELSE "chunk"])
    /\ UNCHANGED <<requests, delivered, offConcVars>>

ConcRaiseInChunk(r) ==
    /\ Frame(r).pc = "chunk"
    /\ Frame(r).pending = <<>>
    /\ Frame(r).pendingRaise
    /\ Resume(r, [Frame(r) EXCEPT !.pendingRaise = FALSE, !.pc = "terminated",
                                  !.outcome = "raised"])
    /\ UNCHANGED <<requests, delivered, received, offConcVars>>

ConcYieldDone(r) ==
    /\ Frame(r).pc = "eof"
    /\ Deliver(r, DoneEvent)
    /\ Resume(r, [Frame(r) EXCEPT !.pc = "finishing"])
    /\ UNCHANGED <<requests, delivered, offConcVars>>

ConcReturn(r) ==
    /\ Frame(r).pc = "finishing"
    /\ Resume(r, [Frame(r) EXCEPT !.pc = "terminated", !.outcome = "ended"])
    /\ UNCHANGED <<requests, delivered, received, offConcVars>>

\* every request passed validation and was dispatched to one of the adapters
ConcInit ==
    /\ requests \in [Requests -> {"gemini", "openai"}]
    /\ relays = [r \in Requests |-> IdleRelay]
    /\ delivered = [r \in Requests |-> <<>>]
    /\ received = [r \in Requests |-> <<>>]
    /\ OffConc

ConcNext ==
    \E r \in Requests :
        \/ ConcConnect(r)
        \/ \E line \in ConcLines(requests[r]) : ConcNextLine(r, line)
        \/ ConcEndOfStream(r)
        \/ ConcYield(r)
        \/ ConcRaiseInChunk(r)
        \/ ConcYieldDone(r)
        \/ ConcReturn(r)

ConcSpec == ConcInit /\ [][ConcNext]_vars

TypeOK ==
    /\ pc \in {"start", "connect", "status", "lines", "chunk", "eof", "finishing",
               "post", "respond", "closing", "closing_relay", "terminated"}
    /\ outcome \in {"running", "ended", "raised", "abandoned", "returned", "http_error"}
    /\ adapter \in {"none", "gemini", "openai"}
    /\ Len(origin) = Len(events)
    /\ Len(read) <= MaxLines


(***************************************************************************)
(* Properties                                                              *)
(***************************************************************************)
Last(seq) == seq[Len(seq)]
Indices(seq) == 1..Len(seq)
Streaming == mode = "stream"

\* C1: in every event sequence of the streaming relay a Done event is the
\* last event (so there is at most one), an Error event is the last event
\* (so no Done accompanies it), and a stream whose upstream answered 200 and
\* that ran to its end without an Error ends with exactly one Done.
DoneErrorTerminal ==
    Streaming =>
        /\ \A i \in Indices(events) :
              (IsDone(events[i]) \/ IsError(events[i])) => i = Len(events)
        /\ (outcome = "ended" /\ status = 200 /\ \A i \in Indices(events) : ~IsError(events[i]))
              => /\ events # <<>>
                 /\ IsDone(Last(events))
                 /\ Cardinality({i \in Indices(events) : IsDone(events[i])}) = 1

\* a 200 stream of two lines that ended with Content ... Done
WitnessDoneTerminal ==
    /\ Streaming /\ outcome = "ended" /\ status = 200
    /\ Len(read) >= 2
    /\ Len(events) >= 3
    /\ IsContent(events[1])
    /\ IsDone(Last(events))

\* C2: for both providers a non-200 initial status yields exactly one Error
\* event carrying the body that was read, no response line is read, no
\* Content/Thinking/Usage/Done event is emitted, and the relay then ends.
Non200SingleError ==
    (Streaming /\ status \notin {0, 200}) =>
        /\ read = <<>>
        /\ pc \notin {"lines", "chunk", "eof"}
        /\ \A i \in Indices(events) : events[i] = ErrorEvent(body, <<>>)
        /\ Len(events) <= 1
        /\ (pc = "finishing" \/ outcome = "ended") => Len(events) = 1
        /\ outcome = "raised" => events = <<>>

WitnessNon200 ==
    /\ Streaming /\ adapter = "gemini" /\ status = 500 /\ body = "server error"
    /\ outcome = "ended"
    /\ events = <<ErrorEvent("server error", <<>>)>>


\* C3 as claimed: on the OpenAI path the lines Content "Hi", [DONE] give
\* exactly Content("Hi") and no Done event follows the sentinel.
SentinelWithoutDone ==
    (Streaming /\ adapter = "openai" /\ outcome = "ended" /\ read = <<OpenAIHiLine, DoneLine>>)
        => events = <<ContentEvent(Str("Hi"))>>

\* C3 amended: on the OpenAI path the [DONE] sentinel stops the relay and is
\* followed by the final Done event; the lines Content "Hi", [DONE] give
\* exactly Content("Hi"), Done.
SentinelThenDone ==
    (Streaming /\ adapter = "openai" /\ read = <<OpenAIHiLine, DoneLine>>) =>
        /\ pc \notin {"lines", "chunk"}
        /\ pc = "eof" => events = <<ContentEvent(Str("Hi"))>>
        /\ (pc = "finishing" \/ outcome = "ended")
              => events = <<ContentEvent(Str("Hi")), DoneEvent>>

WitnessSentinelThenDone ==
    /\ Streaming /\ adapter = "openai" /\ outcome = "ended"
    /\ read = <<OpenAIHiLine, DoneLine>>
    /\ events = <<ContentEvent(Str("Hi")), DoneEvent>>

\* C4: on the OpenAI path a line whose payload is exactly [DONE] is the last
\* line ever read, no event comes from it or from a later line, and the
\* relay has left the line loop (the sentinel is not skipped like a payload
\* that fails to decode).
SentinelStopsReading ==
    []((Streaming /\ adapter = "openai") =>
          \A i \in Indices(read) :
              (read[i].prefix = "data: " /\ read[i].raw = "[DONE]") =>
                  /\ i = Len(read)
                  /\ pc \notin {"lines", "chunk"}
                  /\ \A k \in Indices(events) : origin[k] < i)
    /\ [][(Streaming /\ adapter = "openai" /\ read # <<>>
            /\ Last(read).prefix = "data: " /\ Last(read).raw = "[DONE]")
           => read' = read]_vars

\* the sentinel came second; a third line could still have been read
WitnessSentinelStopsReading ==
    /\ Streaming /\ adapter = "openai" /\ outcome = "ended"
    /\ Len(read) = 2 /\ Len(read) < MaxLines
    /\ read[1] = OpenAIHiLine /\ read[2] = DoneLine

\* C5 as claimed: a started stream never raises; unless the upstream
\* connection failed or the consumer went away, it ends with an Error or a
\* Done event, also when a decoded payload has an unexpected shape.
StartedStreamEndsAnnounced ==
    (Streaming /\ pc = "terminated" /\ outcome # "abandoned"
       /\ ~(outcome = "raised" /\ result.exc = "httpx.TransportError"))
    => /\ outcome = "ended"
       /\ events # <<>>
       /\ (IsError(Last(events)) \/ IsDone(Last(events)))

(***************************************************************************)
(* The events of a whole line sequence, as the loop of the relay makes     *)
(* them: lines[k..] in order, up to the sentinel or the first exception    *)
(***************************************************************************)
RECURSIVE EventsOfLines(_, _, _)
EventsOfLines(a, lines, k) ==
    IF k > Len(lines) THEN <<>>
    ELSE IF ~HasDataPrefix(lines[k]) THEN EventsOfLines(a, lines, k + 1)
    ELSE IF IsSentinel(a, lines[k]) THEN <<>>
    ELSE LET r == TryChunk(a, lines[k].json) IN
         IF r.raises THEN r.evs ELSE r.evs \o EventsOfLines(a, lines, k + 1)

\* a `data: ` line on which json.loads is called and raises JSONDecodeError
Undecodable(a, line) ==
    /\ line.prefix = "data: "
    /\ ~(a = "openai" /\ line.raw = "[DONE]")
    /\ line.json.t = "invalid"

Decodable(a, lines) == SelectSeq(lines, LAMBDA l : ~Undecodable(a, l))

\* C6: a `data: ` line whose payload fails JSON decoding yields no event, no
\* Error and does not end the relay; the events of any line sequence are
\* those of the sequence without its undecodable lines.
UndecodableSkipped ==
    []((Streaming /\ status = 200) =>
          /\ pc \in {"lines", "eof"}
                => events = EventsOfLines(adapter, Decodable(adapter, read), 1)
          /\ outcome = "ended"
                => events = EventsOfLines(adapter, Decodable(adapter, read), 1)
                              \o <<DoneEvent>>)
    /\ [][(pc = "lines" /\ read' # read /\ Undecodable(adapter, Last(read')))
           => /\ pc' = "lines"
              /\ events' = events
              /\ pending' = <<>> /\ ~pendingRaise'
              /\ outcome' = "running"]_vars

\* valid, malformed, valid: both valid lines gave their events
WitnessUndecodableSkipped ==
    /\ Streaming /\ adapter = "gemini" /\ outcome = "ended"
    /\ read = <<GeminiHiLine, BadLine, GeminiUsageOnlyLine>>
    /\ Len(events) = 3
    /\ IsContent(events[1]) /\ IsUsage(events[2]) /\ IsDone(events[3])

SetMin(S) == CHOOSE x \in S : \A y \in S : x <= y
SetMax(S) == CHOOSE x \in S : \A y \in S : x >= y
\* the events that came from line i
EventsFrom(i) ==
    LET ks == {k \in Indices(events) : origin[k] = i} IN
    IF ks = {} THEN <<>> ELSE SubSeq(events, SetMin(ks), SetMax(ks))

\* C7: events are emitted in the order of the upstream lines they come
\* from, every event of a line before the next line is consumed; within a
\* Gemini chunk the part events keep the order of `parts` and the Usage
\* event follows them.
EventsInLineOrder ==
    []((Streaming /\ status = 200) =>
          /\ \A i, j \in Indices(events) :
                (i < j /\ origin[i] # 0) => (origin[j] = 0 \/ origin[i] <= origin[j])
          /\ pc = "lines" => (pending = <<>> /\ events = EventsOfLines(adapter, read, 1))
          /\ pc = "chunk" => events \o pending = EventsOfLines(adapter, read, 1)
          /\ \A i, j \in Indices(events) :
                (i < j /\ origin[i] = origin[j] /\ origin[i] # 0 /\ IsUsage(events[i]))
                   => IsUsage(events[j])
          /\ \A i \in Indices(read) :
                (adapter = "gemini" /\ read[i] = GeminiTwoLine
                   /\ (i < Len(read) \/ pc = "lines"))
                => EventsFrom(i) = <<ThinkingEvent(Str("A")), ContentEvent(Str("B")),
                                      UsageEvent([prompt_tokens |-> Num(1),
                                                  completion_tokens |-> Num(2),
                                                  total_tokens |-> Num(3)])>>)
    /\ [][read' # read => (pending = <<>> /\ ~pendingRaise)]_vars

WitnessEventsInLineOrder ==
    /\ Streaming /\ adapter = "gemini" /\ outcome = "ended"
    /\ read = <<GeminiTwoLine, GeminiHiLine>>
    /\ Len(events) = 5
    /\ origin = <<1, 1, 1, 2, 0>>


GeminiSpellings == {GEMINI, <<"G", "e", "m", "i", "n", "i">>}
OpenAISpellings == {OPENAI, <<"O", "p", "e", "n", "A", "I">>}
\* the provider the request names, letter case aside
Selected ==
    IF provider \in GeminiSpellings THEN "gemini"
    ELSE IF provider \in OpenAISpellings THEN "openai"
    ELSE "none"

\* C8: a provider that is neither gemini nor openai, letter case aside, is
\* rejected whatever the keys are: chat fails with status 400 and no result,
\* chat_stream yields exactly one Error event and nothing else, and no
\* upstream call is issued; a name that differs only in letter case is
\* accepted.
UnsupportedProviderRejected ==
    /\ Selected = "none" =>
          /\ calls = 0 /\ status = 0 /\ adapter = "none"
          /\ outcome \notin {"raised", "returned"}
          /\ mode = "chat" =>
                /\ events = <<>>
                /\ pc = "terminated"
                      => /\ outcome = "http_error"
                         /\ result = HTTPException(400, "unsupported provider: ", provider)
          /\ Streaming =>
                /\ pc # "start"
                      => events = <<ErrorEvent("unsupported provider: ", provider)>>
                /\ pc = "terminated" => outcome \in {"ended", "abandoned"}
    /\ Selected # "none" =>
          /\ \A i \in Indices(events) :
                events[i] # ErrorEvent("unsupported provider: ", provider)
          /\ result # HTTPException(400, "unsupported provider: ", provider)
          /\ (pc # "start" /\ geminiKey # "" /\ openaiKey # "") => adapter = Selected

WitnessUnsupportedProvider ==
    /\ Streaming /\ outcome = "ended"
    /\ provider = <<"g", "e", "m", "i", "n", "i", "2">>
    /\ geminiKey = "" /\ openaiKey = ""
    /\ Len(events) = 1 /\ IsError(events[1])

\* C9: when the key of the selected provider is empty no upstream call is
\* made: chat fails with status 500, chat_stream does not raise and yields
\* exactly one Error event and no Done, whatever the other provider's key is.
MissingKeyRejected ==
    ((Selected = "gemini" /\ geminiKey = "") \/ (Selected = "openai" /\ openaiKey = "")) =>
        /\ calls = 0 /\ status = 0
        /\ outcome \notin {"raised", "returned"}
        /\ mode = "chat" =>
              /\ events = <<>>
              /\ pc = "terminated"
                    => /\ outcome = "http_error"
                       /\ result.kind = "HTTPException"
                       /\ result.status_code = 500
        /\ Streaming =>
              /\ Len(events) <= 1
              /\ pc # "start" => (Len(events) = 1 /\ IsError(events[1]))
              /\ pc = "terminated" => outcome \in {"ended", "abandoned"}

\* the gemini key is missing while the openai key is configured
WitnessMissingKey ==
    /\ Streaming /\ outcome = "ended"
    /\ provider = <<"G", "e", "m", "i", "n", "i">>
    /\ geminiKey = "" /\ openaiKey # ""
    /\ Len(events) = 1 /\ IsError(events[1])

\* the stream state machine of the gateway
RelayState ==
    IF pc = "terminated" THEN "Terminated"
    ELSE IF status = 0 THEN "NotStarted"
    ELSE "Relaying"

\* C10: a request that passed validation issues exactly one upstream call
\* and none of its paths issues a second one; Relaying is entered once, from
\* NotStarted, and Terminated is absorbing: nothing is emitted after it.
SingleUpstreamCall ==
    [](/\ calls <= 1
       /\ adapter = "none" => calls = 0
       /\ (adapter # "none" /\ pc = "terminated" /\ outcome # "abandoned") => calls = 1
       /\ RelayState = "Relaying" => calls = 1)
    /\ [][/\ calls' # calls => (calls = 0 /\ RelayState = "NotStarted")
          /\ RelayState = "Terminated"
                => (RelayState' = "Terminated" /\ events' = events /\ calls' = calls)
          /\ RelayState = "Relaying" => RelayState' # "NotStarted"
          /\ (RelayState' = "Relaying" /\ RelayState # "Relaying")
                => RelayState = "NotStarted"]_vars

WitnessSingleUpstreamCall ==
    /\ Streaming /\ outcome = "ended" /\ status = 200
    /\ calls = 1
    /\ Len(read) = MaxLines
    /\ \E i \in Indices(read) : Undecodable(adapter, read[i])


Released == ~clientOpen /\ ~respOpen

\* C11: the upstream response and the per-request client are released on
\* every exit path: at once after normal completion, after a non-200 Error,
\* after the [DONE] break and after an exception, and, after the consumer
\* abandons the sequence, as soon as the generators are closed; no
\* terminated request leaves either open.
ReleasedOnEveryExit ==
    /\ [](/\ pc = "terminated" => Released
          /\ outcome \in {"ended", "raised", "returned", "http_error"} => Released
          /\ pc = "eof" => ~respOpen
          /\ (outcome = "abandoned" /\ pc # "closing") => ~clientOpen)
    /\ (outcome # "running") ~> Released
    /\ [][(outcome # "running" /\ Released) => Released']_vars

\* abandoned at a yield inside the line loop of a 200 stream, then closed
WitnessReleasedAfterAbandon ==
    /\ Streaming /\ outcome = "abandoned" /\ pc = "terminated"
    /\ status = 200 /\ events # <<>> /\ ~IsDone(Last(events))
    /\ origin[Len(origin)] = Len(read)
    /\ Released

\* what the caller of a request gets when its relay runs alone on these lines
\* and has reached the suspension point the frame is at
AloneEvents(a, lines, frame) ==
    IF frame.status # 200 THEN <<ErrorEvent("server error", <<>>)>>
    ELSE IF frame.outcome = "ended" \/ frame.pc = "finishing"
    THEN EventsOfLines(a, lines, 1) \o <<DoneEvent>>
    ELSE EventsOfLines(a, lines, 1)

\* C12: requests relayed concurrently are independent: under every
\* interleaving at the suspension points each caller has received what its
\* own request and its own upstream lines produce when relayed alone, and a
\* step of one request changes nothing of another.
IndependentRelays ==
    /\ [](\A r \in Requests :
            /\ relays[r].adapter \in {"none", requests[r]}
            /\ relays[r].pc # "connect"
                  => received[r] \o relays[r].pending
                        = AloneEvents(requests[r], delivered[r], relays[r]))
    /\ [][\A r, q \in Requests :
            (r # q /\ (delivered'[r] # delivered[r] \/ received'[r] # received[r]
                       \/ relays'[r] # relays[r]))
               => /\ relays'[q] = relays[q]
                  /\ delivered'[q] = delivered[q]
                  /\ received'[q] = received[q]]_vars

WitnessInterleavedRelays ==
    /\ requests[1] = "gemini" /\ requests[2] = "openai"
    /\ relays[1].pc = "chunk" /\ received[1] # <<>> /\ relays[1].pending # <<>>
    /\ received[2] # <<>> /\ Len(delivered[2]) = ConcMaxLines
    /\ relays[2].pc = "lines"

\* C13: in a Gemini request body a message of role "user" has wire role
\* "user" and a message of any other role has wire role "model"; mapping a
\* wire role again gives the same wire role.
GeminiRoleMapping ==
    (target = "gemini" /\ posted) =>
        \A k \in 1..Len(messages) :
            /\ messages[k].role = "user" => wire[k].role = "user"
            /\ messages[k].role # "user" => wire[k].role = "model"
            /\ GeminiWireRole(wire[k].role) = wire[k].role

WitnessGeminiRoleMapping ==
    /\ target = "gemini" /\ posted
    /\ Len(messages) = 2
    /\ messages[1].role = "system" /\ messages[2].role = "user"
    /\ wire[1].role = "model" /\ wire[2].role = "user"

\* C14: the wire list of either adapter has one entry per message, in the
\* order of request.messages, the k-th carrying the k-th content unchanged;
\* OpenAI turns role "model" into "assistant" and passes every other role on.
MessagesOneToOne ==
    posted =>
        /\ Len(wire) = Len(messages)
        /\ \A k \in 1..Len(messages) :
              IF target = "gemini"
              THEN wire[k].parts = <<[text |-> messages[k].content]>>
              ELSE /\ wire[k].content = messages[k].content
                   /\ messages[k].role = "model" => wire[k].role = "assistant"
                   /\ messages[k].role # "model" => wire[k].role = messages[k].role

WitnessMessagesOneToOne ==
    /\ target = "openai" /\ posted
    /\ Len(messages) = 2
    /\ messages[1] = Message("model", "hi") /\ messages[2] = Message("user", "ok")
    /\ wire = <<[role |-> "assistant", content |-> "hi"], [role |-> "user", content |-> "ok"]>>

\* the parts of candidates[0].content of a well-shaped Gemini answer
PartsOf(data) ==
    IF In("candidates", data) /\ Truthy(data.v.candidates)
       /\ In("content", First(data.v.candidates))
       /\ In("parts", First(data.v.candidates).v.content)
    THEN First(data.v.candidates).v.content.v.parts.v
    ELSE <<>>

Flagged(part) == In("thought", part) /\ part.v.thought = Bool(TRUE)
TextOf(part) == IF In("text", part) THEN part.v.text.v ELSE ""

\* the non-empty texts, in part order, of the parts flagged / not flagged
TextsOf(parts, thought) ==
    LET sel == SelectSeq(parts, LAMBDA part : Flagged(part) = thought /\ TextOf(part) # "")
    IN [k \in 1..Len(sel) |-> TextOf(sel[k])]

\* C15: a parsed Gemini single-shot answer has as content the texts of the
\* parts not flagged as thought, in part order, and as thinking_content those
\* of the flagged parts, which is None exactly when no part is flagged; no
\* candidates gives empty content; usage is None exactly when the answer has
\* no usageMetadata.
GeminiSingleParsed ==
    (mode = "chat" /\ adapter = "gemini" /\ outcome = "returned") =>
        LET data == read[1]
            parts == PartsOf(data)
        IN /\ result.content = TextsOf(parts, FALSE)
           /\ result.thinking_content = TextsOf(parts, TRUE)
           /\ result.has_thinking <=> \E k \in 1..Len(parts) : Flagged(parts[k])
           /\ ~In("candidates", data) => result.content = <<>>
           /\ result.usage.present <=> In("usageMetadata", data)

WitnessGeminiSingleParsed ==
    /\ mode = "chat" /\ adapter = "gemini" /\ outcome = "returned"
    /\ read = <<GeminiTwo>>
    /\ result.content = <<"B">>
    /\ result.has_thinking /\ result.thinking_content = <<"A">>
    /\ result.usage.present

\* C16: a single-shot call answered with a status other than 200 returns no
\* ChatResponse: it fails with an HTTPException carrying that status and the
\* answer's body as received, the body is never parsed and the call is not
\* made again.
SingleShotUpstreamError ==
    /\ []((mode = "chat" /\ status \notin {0, 200}) =>
            /\ result.kind # "ChatResponse"
            /\ read = <<>>
            /\ calls = 1
            /\ pc = "terminated"
                  => /\ result = HTTPException(status, body, <<>>)
                     /\ outcome = "http_error")
    /\ [][(mode = "chat" /\ status \notin {0, 200}) => calls' = calls]_vars

WitnessSingleShotUpstreamError ==
    /\ mode = "chat" /\ adapter = "openai" /\ pc = "terminated"
    /\ status = 500 /\ body = "{\"error\": \"quota\"}"
    /\ result.kind = "HTTPException"
    /\ result.status_code = 500
    /\ result.detail.msg = "{\"error\": \"quota\"}"
    /\ calls = 1

\* the value the chunk reports under this name, 0 when it reports none
Reported(um, name) == IF name \in DOMAIN um.v THEN um.v[name] ELSE Num(0)

\* C17: a Usage event carries the prompt, completion and total token counts of
\* the usageMetadata of the chunk it was produced from, a missing count read
\* as 0; nothing of an earlier chunk is added to or taken from them.
UsageOwnValues ==
    \A k \in Indices(events) :
        IsUsage(events[k]) =>
            LET um == read[origin[k]].json.v.usageMetadata IN
            events[k].usage =
                [prompt_tokens |-> Reported(um, "promptTokenCount"),
                 completion_tokens |-> Reported(um, "candidatesTokenCount"),
                 total_tokens |-> Reported(um, "totalTokenCount")]

WitnessUsageOwnValues ==
    /\ Streaming /\ adapter = "gemini"
    /\ read = <<GeminiTwoLine, GeminiUsageOnlyLine>>
    /\ Len(events) = 4
    /\ IsUsage(events[3]) /\ events[3].usage.total_tokens = Num(3)
    /\ IsUsage(events[4])
    /\ events[4].usage = [prompt_tokens |-> Num(1), completion_tokens |-> Num(0),
                          total_tokens |-> Num(5)]

\* the chunk of a `data: ` line decodes to an object with usage metadata
HasUsage(a, line) ==
    /\ line.prefix = "data: "
    /\ ~IsSentinel(a, line)
    /\ line.json.t = "obj"
    /\ (IF a = "gemini" THEN "usageMetadata" ELSE "usage") \in DOMAIN line.json.v

\* the relay is through with line n and still relaying or ended normally
RelayedLine(n) ==
    /\ n \in Indices(read)
    /\ outcome \in {"running", "ended"}
    /\ n < Len(read) \/ pc \in {"lines", "eof", "finishing", "terminated"}

\* C18: every decodable chunk with usage metadata, on the Gemini path
\* (`usageMetadata`) as on the OpenAI path (`usage`), gives a Usage event of
\* that chunk, whether or not it has candidates, choices or text.
UsageAlwaysRelayed ==
    (Streaming /\ status = 200) =>
        \A n \in Indices(read) :
            (RelayedLine(n) /\ HasUsage(adapter, read[n])
                /\ ~TryChunk(adapter, read[n].json).raises)
               => \E k \in Indices(events) : origin[k] = n /\ IsUsage(events[k])

IsText(e) == IsContent(e) \/ IsThinking(e)

\* the Content and Thinking events that came from line n, in order
TextEventsOf(n) ==
    LET tagged == [k \in Indices(events) |-> [ev |-> events[k], from |-> origin[k]]]
        sel == SelectSeq(tagged, LAMBDA x : x.from = n /\ IsText(x.ev))
    IN [k \in Indices(sel) |-> sel[k].ev]

\* one event per part or delta with non-empty text
TextEventsDue(a, chunk) ==
    IF chunk.t # "obj" THEN <<>>
    ELSE IF a = "gemini"
    THEN LET sel == SelectSeq(PartsOf(chunk), LAMBDA part : TextOf(part) # "") IN
         [k \in Indices(sel) |->
             [type |-> IF Flagged(sel[k]) THEN "thinking" ELSE "content",
              data |-> sel[k].v.text]]
    ELSE IF In("choices", chunk) /\ Truthy(chunk.v.choices)
            /\ In("delta", First(chunk.v.choices))
            /\ In("content", First(chunk.v.choices).v.delta)
            /\ First(chunk.v.choices).v.delta.v.content.v # ""
    THEN <<[type |-> "content", data |-> First(chunk.v.choices).v.delta.v.content]>>
    ELSE <<>>

\* C19: Content and Thinking events carry non-empty text only; a Gemini part
\* or an OpenAI delta whose text is empty or missing gives no event, and a
\* Gemini part with text gives exactly one, Thinking iff its thought flag is
\* true and Content otherwise.
OnlyNonEmptyText ==
    (Streaming /\ status = 200) =>
        /\ \A k \in Indices(events) : IsText(events[k]) => events[k].data.v # ""
        /\ \A n \in Indices(read) :
              (RelayedLine(n) /\ read[n].prefix = "data: "
                  /\ ~TryChunk(adapter, read[n].json).raises)
                 => TextEventsOf(n) = TextEventsDue(adapter, read[n].json)

WitnessOnlyNonEmptyText ==
    /\ Streaming /\ adapter = "gemini" /\ outcome = "ended"
    /\ read = <<GeminiEmptyPartLine, GeminiTwoLine>>
    /\ Len(events) = 4
    /\ events[1] = ThinkingEvent(Str("A")) /\ events[2] = ContentEvent(Str("B"))

WitnessEmptyDeltaSkipped ==
    /\ Streaming /\ adapter = "openai" /\ outcome = "ended"
    /\ read = <<OpenAIEmptyLine, OpenAIRoleLine, OpenAIHiLine>>
    /\ events = <<ContentEvent(Str("Hi")), DoneEvent>>

\* the lines that begin with `data: `, space included
DataLines(lines) == SelectSeq(lines, LAMBDA l : l.prefix = "data: ")

\* C20: only a line beginning with `data: ` is decoded; any other line gives
\* no event, does not end the relay, and the events of a line sequence are
\* those of the sequence without such lines.
OnlyDataLinesDecoded ==
    /\ []((Streaming /\ status = 200) =>
            /\ pc \in {"lines", "eof"}
                  => events = EventsOfLines(adapter, DataLines(read), 1)
            /\ outcome = "ended"
                  => events = EventsOfLines(adapter, DataLines(read), 1) \o <<DoneEvent>>)
    /\ [][(pc = "lines" /\ read' # read /\ Last(read').prefix # "data: ")
           => /\ pc' = "lines"
              /\ events' = events
              /\ pending' = <<>> /\ ~pendingRaise'
              /\ outcome' = outcome]_vars

WitnessOnlyDataLinesDecoded ==
    /\ Streaming /\ adapter = "openai" /\ outcome = "ended"
    /\ read = <<NoSpaceLine, BlankLine, OpenAIHiLine>>
    /\ events = <<ContentEvent(Str("Hi")), DoneEvent>>

\* the characters between the two quotes of a JSON string: no bare quote, no
\* bare newline, and a backslash only in front of a character it may escape
RECURSIVE ValidStringBody(_)
ValidStringBody(b) ==
    IF b = <<>> THEN TRUE
    ELSE IF Head(b) \in {Quote, Newline} THEN FALSE
    ELSE IF Head(b) = Backslash
    THEN /\ Len(b) >= 2
         /\ b[2] \in {Quote, Backslash, "n"}
         /\ ValidStringBody(Tail(Tail(b)))
    ELSE ValidStringBody(Tail(b))

StartsWith(w, head) == Len(w) >= Len(head) /\ SubSeq(w, 1, Len(head)) = head
EndsWith(w, tail) == Len(w) >= Len(tail) /\ SubSeq(w, Len(w) - Len(tail) + 1, Len(w)) = tail
Between(w, head, tail) == SubSeq(w, Len(head) + 1, Len(w) - Len(tail))

\* one `data: ` line holding one JSON object of one of the frame shapes,
\* then a blank line
WellFormedFrame(w) ==
    /\ EndsWith(w, FrameEnd)
    /\ \A k \in 1..(Len(w) - 2) : w[k] # Newline
    /\ \/ w = DoneFrame
       \/ /\ StartsWith(w, ErrorHead)
          /\ EndsWith(w, ErrorTail \o FrameEnd)
          /\ Len(w) >= Len(ErrorHead) + Len(ErrorTail) + 2
          /\ ValidStringBody(Between(w, ErrorHead, ErrorTail \o FrameEnd))
       \/ \E type \in {"content", "thinking"} :
             LET head == TextHead(type) \o <<Quote>>
                 tail == <<Quote, "}">> \o FrameEnd
             IN /\ StartsWith(w, head)
                /\ EndsWith(w, tail)
                /\ Len(w) >= Len(head) + Len(tail)
                /\ ValidStringBody(Between(w, head, tail))

\* C21: every frame written to the client is one line `data: <one JSON
\* object>` followed by a blank line, whatever text it carries: also an
\* Error frame whose text has a double quote, a backslash or a newline.
FramesWellFormed == written # <<>> => WellFormedFrame(written)

\* the frames whose text goes through json.dumps are well formed
DumpedFramesWellFormed ==
    (written # <<>> /\ StartsWith(written, <<"data: ", "{", "\"type\"">>))
        => WellFormedFrame(written)

RECURSIVE SumTokens(_)
SumTokens(ms) ==
    IF ms = {} THEN 0
    ELSE LET m == CHOOSE x \in ms : TRUE
         IN stored[m].total_tokens + SumTokens(ms \ {m})

CountersMatch ==
    \A c \in DOMAIN sessions :
        /\ sessions[c].message_count = Cardinality(MessagesOf(c))
        /\ sessions[c].total_tokens = SumTokens(MessagesOf(c))

\* C22: after any sequence of create_message, delete_message and
\* clear_session_messages on existing sessions, each session's message_count
\* is the number of stored messages with its id and its total_tokens is the
\* sum of their total_tokens; a delete_message that finds no message with
\* that id in that session changes nothing.
CountersConsistent ==
    /\ []CountersMatch
    /\ [][response' = NotFound("message") => UNCHANGED <<sessions, stored>>]_vars

WitnessCountersConsistent ==
    /\ response = Ok
    /\ \E c \in DOMAIN sessions :
          /\ sessions[c].message_count = 1
          /\ sessions[c].total_tokens = 3
          /\ NextRowId(stored) = 3

WitnessDeleteFindsNothing ==
    /\ response = NotFound("message")
    /\ stored # <<>>
\* a call of one of the routes that name a session
SessionCall(u, session_id) ==
    \/ ListMessages(u, session_id)
    \/ \E flag \in BOOLEAN : ArchiveSession(u, session_id, flag)
    \/ \E flag \in BOOLEAN : PinSession(u, session_id, flag)
    \/ DeleteSession(u, session_id)
    \/ \E total_tokens \in TokenCounts : CreateMessage(u, session_id, total_tokens)
    \/ \E message_id \in RowIds : DeleteMessage(u, session_id, message_id)
    \/ ClearMessages(u, session_id)

\* a call naming a session the caller does not own answers 404 and leaves
\* every table as it was
ForeignSessionRejected ==
    [][\A u \in Callers, session_id \in RowIds :
          ~GetSessionById(session_id, u) /\ SessionCall(u, session_id)
              => /\ response' = NotFound("session")
                 /\ UNCHANGED <<users, sessions, stored>>]_vars

\* the messages a user can read were made through a session that user owned
ReadsOwnMessages ==
    \A u \in Callers, session_id \in RowIds :
        GetSessionById(session_id, u)
            => \A m \in MessagesOf(session_id) : stored[m].owner = u

\* C23: a call naming a session the caller does not own (get, update, delete,
\* archive, pin, list/create/delete/clear messages) answers 404 and changes
\* nothing; consequently every message a user can read was created through a
\* session that user owned.
OwnershipEnforced == ForeignSessionRejected /\ []ReadsOwnMessages

\* delete_session leaves no message of the session, delete_user leaves no
\* session of the user and no message of such a session
DeletesCascade ==
    [][\A u \in Callers :
          /\ \A session_id \in RowIds :
                GetSessionById(session_id, u) /\ DeleteSession(u, session_id)
                    => \A m \in DOMAIN stored' : stored'[m].session_id # session_id
          /\ u \in DOMAIN users /\ DeleteAccount(u)
                => /\ \A c \in DOMAIN sessions' : sessions'[c].user_id # u
                   /\ \A m \in DOMAIN stored' :
                         stored'[m].session_id \notin SessionsOf(u)]_vars

\* no session holds a message older than itself
NoOlderMessages ==
    \A m \in DOMAIN stored :
        stored[m].session_id \in DOMAIN sessions
            => stored[m].created_at >= sessions[stored[m].session_id].created_at

\* C24: after delete_session succeeds no message with that session_id
\* remains, after delete_user no session of that user and no message of such
\* a session remains; therefore a session created later never contains
\* messages that were created before it existed.
NoOrphans == DeletesCascade /\ []NoOlderMessages
Decodes(token, type) ==
    /\ token # NoCredentials
    /\ DecodeToken(token) # NoPayload
    /\ DecodeToken(token).type = type

\* C25: get_current_user accepts only a decodable token of type "access" and
\* answers 401 otherwise; refresh answers 401 and issues nothing for a token
\* that does not decode or is not of type "refresh"; every answer carrying
\* tokens carries an access token and a refresh token whose sub is the id of
\* the same user.
TokensByType ==
    /\ [][/\ GetCurrentUser(NoCredentials) => response' = Unauthorized
          /\ \A made \in issued : \A token \in {made, Tampered(made)} :
               /\ GetCurrentUser(token)
                     => IF Decodes(token, "access")
                        THEN /\ response'.status = 200
                             /\ response'.user_id = IntOf(token.payload.sub)
                        ELSE response' = Unauthorized
               /\ Refresh(token) /\ ~Decodes(token, "refresh")
                     => response' = Unauthorized /\ issued' = issued]_vars
    /\ []("access_token" \in DOMAIN response
            => /\ Decodes(response.access_token, "access")
               /\ Decodes(response.refresh_token, "refresh")
               /\ response.access_token.payload.sub = StrOf(response.user)
               /\ response.refresh_token.payload.sub = StrOf(response.user))

WitnessTokensByType ==
    /\ response.status = 200
    /\ "user_id" \in DOMAIN response
    /\ \E token \in issued : token.payload.type = "refresh"

WitnessRefreshed ==
    /\ "access_token" \in DOMAIN response
    /\ users[response.user].created_at < clock
    /\ users[response.user].last_login_at = 0
UniqueUsers ==
    \A a, b \in DOMAIN users :
        a # b => /\ users[a].username # users[b].username
                 /\ users[a].email # users[b].email

\* a registration whose username or email is stored answers 400 and writes
\* nothing
TakenRefused ==
    [][\A username \in Usernames, email \in Emails, password \in Passwords :
          (/\ Register(username, email, password)
           /\ ByUsername(username) # {} \/ ByEmail(email) # {})
              => /\ response'.status = 400
                 /\ users' = users
                 /\ issued' = issued]_vars

\* C26: no two users share a username or an email; a registration whose
\* username or email is already stored answers 400, creates no user, issues
\* no tokens and leaves the stored users as they were.
RegistrationUnique == []UniqueUsers /\ TakenRefused

WitnessRegistrationUnique ==
    /\ response = BadRequest("email")
    /\ users # <<>>

\* the user named at login: by username, failing that by email
LoginUser(name) == IF ByUsername(name) # {} THEN ByUsername(name) ELSE ByEmail(name)

\* an inactive user gets 403 for the right password and 401 for a wrong one,
\* no token and no last_login_at; login issues tokens only to a user found
\* whose password verifies
InactiveLoginRefused ==
    [][\A name \in Usernames \cup Emails, password \in Passwords :
          Login(name, password)
              => /\ \A u \in LoginUser(name) :
                       ~users[u].is_active
                           => /\ response' =
                                     IF VerifyPassword(password, users[u].password_hash)
                                     THEN Forbidden ELSE Unauthorized
                              /\ users' = users
                              /\ issued' = issued
                 /\ "access_token" \in DOMAIN response'
                       => \E u \in LoginUser(name) :
                             /\ VerifyPassword(password, users[u].password_hash)
                             /\ response'.user = u]_vars

\* the user a refresh token was issued to is no longer stored: the id is
\* free, or names a row created after the token was made
HolderDeleted(token) ==
    LET user_id == IntOf(token.payload.sub)
    IN \/ user_id \notin DOMAIN users
       \/ users[user_id].created_at > token.payload.exp - RefreshTokenExpire

\* refresh with the token of an inactive or of a deleted user answers 401
GoneRefreshRefused ==
    [][\A token \in issued :
          /\ Refresh(token)
          /\ Decodes(token, "refresh")
          /\ \/ HolderDeleted(token)
             \/ ~users[IntOf(token.payload.sub)].is_active
          => response' = Unauthorized]_vars

\* C27: an inactive user never obtains tokens: login answers 403 with the
\* right password and 401 with a wrong one and leaves last_login_at alone,
\* refresh with that user's token answers 401, and so it does once the user
\* is deleted; login issues tokens only when the user is found by username
\* or, failing that, by email, and the password verifies.
InactiveNeverGetsTokens == InactiveLoginRefused /\ GoneRefreshRefused
\* the rows of a listing are in the order the claim gives
InOrder(r) ==
    \A i, j \in DOMAIN r :
        i < j => /\ sessions[r[j]].is_pinned => sessions[r[i]].is_pinned
                 /\ sessions[r[i]].is_pinned = sessions[r[j]].is_pinned
                       => sessions[r[i]].updated_at >= sessions[r[j]].updated_at

\* a step that sets one flag of one session changes that flag and updated_at
OnlyFlag(u, session_id, key, flag) ==
    /\ sessions'[session_id][key] = flag
    /\ sessions' = [sessions EXCEPT ![session_id][key] = flag,
                                    ![session_id].updated_at = sessions'[session_id].updated_at]
    /\ UNCHANGED <<users, stored>>

\* C28: get_user_sessions returns only the caller's sessions, none archived
\* unless include_archived, pinned before unpinned and the more recently
\* updated first within each group; archiving and unarchiving (pinning and
\* unpinning) set the flag and change no other field but updated_at, so the
\* pair of them restores the flag to false.
ListingOrdered ==
    [][\A u \in Callers :
          /\ \A include_archived \in BOOLEAN, limit \in Limits, offset \in Offsets :
                ListSessions(u, include_archived, limit, offset)
                    => /\ \A i \in DOMAIN response'.sessions :
                             LET c == response'.sessions[i]
                             IN /\ c \in DOMAIN sessions
                                /\ sessions[c].user_id = u
                                /\ ~include_archived => ~sessions[c].is_archived
                       /\ InOrder(response'.sessions)
          /\ \A session_id \in RowIds, flag \in BOOLEAN :
                GetSessionById(session_id, u)
                    => /\ ArchiveSession(u, session_id, flag)
                             => OnlyFlag(u, session_id, "is_archived", flag)
                       /\ PinSession(u, session_id, flag)
                             => OnlyFlag(u, session_id, "is_pinned", flag)]_vars

\* an older pinned session listed before a newer unpinned one
WitnessListingOrdered ==
    /\ "sessions" \in DOMAIN response
    /\ Len(response.sessions) = 2
    /\ sessions[response.sessions[1]].is_pinned
    /\ sessions[response.sessions[1]].updated_at < sessions[response.sessions[2]].updated_at

\* a session unarchived after having been archived
WitnessUnarchived ==
    /\ response = Ok
    /\ \E c \in DOMAIN sessions :
          /\ ~sessions[c].is_archived
          /\ sessions[c].updated_at = clock
          /\ sessions[c].updated_at > sessions[c].created_at + 1
====
